---- MODULE Spec2Model ----
(***************************************************************************)
(* Model of the RTMP relay codingpa-ws/rtmp: server sessions               *)
(* (session.go), the broadcaster facade (broadcaster.go) and the context   *)
(* store behind it.  Every connection is served by its own goroutine       *)
(* (Server.Listen); the goroutines interleave at their accesses to the     *)
(* shared context store.  The chunk stream of one connection                *)
(* (ChunkHandler: send and the read path) and the handshake of a session   *)
(* of package rtmp/ (rtmp/session.go: Run) are modelled on their bytes.    *)
(***************************************************************************)
EXTENDS Integers, Sequences, FiniteSets, TLC

(* ------------------------------ bounds --------------------------------- *)
\* connections accepted and stream keys used
NumSessions == 3
NumKeys == 2
\* publish/play commands, audio/video messages and read errors of a run of
\* Spec
MaxCmds == 4
MaxFrames == 1
MaxErrors == 1
\* connections, stream keys, connect commands, publish/play commands and
\* read errors of a run of SpecConnect
ConnSessions == 1
ConnKeys == 1
ConnConnects == 2
ConnCmds == 2
ConnErrors == 1
\* connections, stream keys, publish/play commands, audio/video messages
\* and read errors of a run of SpecPlay
PlaySessions == 2
PlayKeys == 1
PlayCmds == 2
PlayFrames == 2
PlayErrors == 1

\* connections, stream keys, publish/play commands, audio/video/metadata
\* messages and read errors of a run of SpecMixed
MixedSessions == 2
MixedKeys == 2
MixedCmds == 3
MixedFrames == 1
MixedErrors == 1

\* the publish/play command specification: connections, keys, commands, errors
CmdSessions == 2
CmdKeys == 2
CmdCmds == 3
CmdErrors == 1

\* the socket writer specification: connections, keys, commands, frames,
\* Acknowledgements, peers that stop reading
WriterSessions == 3
WriterKeys == 1
WriterCmds == 3
WriterFrames == 1
WriterAcks == 1
WriterStalls == 1

\* the chunk stream specifications: the largest chunk size, the longest
\* payload, the messages written
MaxChunkSize == 2
MaxPayload == 4
ChunkMsgs == 2

\* the control specification: messages handled
ControlMsgs == 3

\* the assembling specification: messages the peer sends, and chunk headers
\* it sends after a message that it cuts into chunks of no bytes
AssembleMsgs == 2
AssembleFeeds == 3

\* the client specification: stream keys, messages received
PlaybackKeys == 2
PlaybackMsgs == 3

(* ------------------------- program constants --------------------------- *)
DefaultClientWindowSize == 2500000
DefaultPublishStream == 0
DefaultChunkSize == 4096
LimitDynamic == 2

Sessions == 1..NumSessions
Keys == 1..NumKeys
\* the zero value of Session.streamKey (the empty string)
NoKey == 0
\* the app name the broadcaster was constructed with, and another one
ServerApp == "app"
Apps == {"app", "other"}
\* a nil []byte
None == <<>>

VARIABLES
    pc,           \* position of each connection's goroutine
    active,       \* Session.active
    app,          \* Session.app
    streamKey,    \* Session.streamKey
    isPublisher,  \* Session.isPublisher
    isPlayer,     \* Session.isPlayer
    outbox,       \* messages written to each connection, in order
    context,      \* the broadcaster's ContextStore
    guard,        \* broadcaster.sessionGuard: whether one is installed, and
                  \* the stream keys its Check rejects
    guardEnded,   \* sessions guard.End was called with
    holder,       \* history: the session whose publish created the entry
    last,         \* history: the session that read a message last, and the message
    client,       \* the kinds of message the peer of each connection sends
    budget,       \* how many keys the peers use, and how many messages of
                  \* each kind they send in all
    nConnects,    \* connect commands read so far
    nCmds,        \* publish/play commands read so far
    nFrames,      \* audio/video messages read so far
    nErrors,      \* read errors so far
    socketw,      \* the connections' socket writers (ChunkHandler.socketw):
                  \* who is inside a write, and the fan-out in progress
    chunkHandler, \* one connection's ChunkHandler: the bytes its socketr
                  \* holds, prevChunkHeader and the two chunk sizes
    peer,         \* history of that connection: the message written and
                  \* the message read last, the timestamps its peer put
                  \* on each chunk stream
    playback,     \* a Session in client mode (StartPlayback): its
                  \* position, its fields, the message it received last
                  \* and the requests it has sent
    rtmpSession   \* one connection's Session of package rtmp/ during
                  \* Run: its position, c1, and the bytes on its socket

vars == <<pc, active, app, streamKey, isPublisher, isPlayer, outbox, context,
          guard, guardEnded, holder, last, client, budget,
          nConnects, nCmds, nFrames, nErrors, socketw, chunkHandler, peer,
          playback, rtmpSession>>

\* the environment: fixed in the initial state
env == <<guard, client, budget>>
counters == <<nConnects, nCmds, nFrames, nErrors>>
\* the connection layer, which the session-level steps take as atomic
wire == <<socketw, chunkHandler, peer, playback, rtmpSession>>
\* one connection's chunk stream, and one connection's handshake
chunks == <<chunkHandler, peer>>
\* the sessions of the relay and what they share
sessions == <<pc, active, app, streamKey, isPublisher, isPlayer, outbox,
              context, guardEnded, holder, last, env, counters, socketw>>

(* ------------------------------ messages ------------------------------- *)
\* a message read from a connection
InMsg(cmd, a, k, codec, pkt, id) ==
    [cmd |-> cmd, app |-> a, key |-> k, codec |-> codec, pkt |-> pkt, id |-> id]

NoMsg == InMsg("none", "", NoKey, "", 0, 0)

\* the payload of an audio/video message: the codec of byte 0, the packet
\* type of byte 1 and the identity of the remaining bytes
PayloadOf(m) == <<m.codec, m.pkt, m.id>>

\* a message written to a connection
OutMsg(type, level, code, n, limit, key, payload, ts) ==
    [type |-> type, level |-> level, code |-> code, n |-> n, limit |-> limit,
     key |-> key, payload |-> payload, ts |-> ts]

StatusMessage(level, code, k) == OutMsg("onStatus", level, code, 0, 0, k, None, 0)
WindowAckSizeMessage(size) == OutMsg("WindowAckSize", "", "", size, 0, NoKey, None, 0)
SetPeerBandwidthMessage(size, limit) == OutMsg("SetPeerBandwidth", "", "", size, limit, NoKey, None, 0)
StreamBeginMessage(id) == OutMsg("StreamBegin", "", "", id, 0, NoKey, None, 0)
SetChunkSizeMessage(size) == OutMsg("SetChunkSize", "", "", size, 0, NoKey, None, 0)
ConnectSuccessMessage == OutMsg("_result", "status", "NetConnection.Connect.Success", 0, 0, NoKey, None, 0)
AudioMessage(payload, ts, k) == OutMsg("audio", "", "", 0, 0, k, payload, ts)
VideoMessage(payload, ts, k) == OutMsg("video", "", "", 0, 0, k, payload, ts)

\* the metadata message with the identity id sent to a subscriber of k
MetadataMessage(id, k) == OutMsg("metadata", "", "", 0, 0, k, <<id>>, 0)

PublishStart(k) == StatusMessage("status", "NetStream.Publish.Start", k)
PlayStart(k) == StatusMessage("status", "NetStream.Play.Start", k)
PlayStop == StatusMessage("status", "NetStream.Play.Stop", NoKey)
StreamNotFound(k) == StatusMessage("error", "NetStream.Play.StreamNotFound", k)

(* ---------------------------- context store ---------------------------- *)
EmptyContext ==
    [streams |-> {},
     subs |-> [k \in Keys |-> {}],
     avc |-> [k \in Keys |-> None],
     aac |-> [k \in Keys |-> None]]

StreamExists(c, k) == k \in c.streams

\* fails with AlreadyExists (the context is unchanged) if the key is held
RegisterPublisher(c, k) ==
    IF k \in c.streams THEN c
    ELSE [c EXCEPT !.streams = @ \cup {k},
                   !.subs[k] = {}, !.avc[k] = None, !.aac[k] = None]

DestroyPublisher(c, k) ==
    IF k \notin c.streams THEN c
    ELSE [c EXCEPT !.streams = @ \ {k},
                   !.subs[k] = {}, !.avc[k] = None, !.aac[k] = None]

\* fails with NotFound if there is no entry; idempotent per session id
RegisterSubscriber(c, k, s) ==
    IF k \notin c.streams THEN c
    ELSE [c EXCEPT !.subs[k] = @ \cup {s}]

DestroySubscriber(c, k, s) ==
    IF k \notin c.streams THEN c
    ELSE [c EXCEPT !.subs[k] = @ \ {s}]

\* the empty set stands for the error returned for a missing entry too:
\* every caller returns without sending anything in that case
GetSubscribersForStream(c, k) ==
    IF k \in c.streams THEN c.subs[k] ELSE {}

SetAvcSequenceHeaderForPublisher(c, k, p) ==
    IF k \in c.streams THEN [c EXCEPT !.avc[k] = p] ELSE c

SetAacSequenceHeaderForPublisher(c, k, p) ==
    IF k \in c.streams THEN [c EXCEPT !.aac[k] = p] ELSE c

GetAvcSequenceHeaderForPublisher(c, k) ==
    IF k \in c.streams THEN c.avc[k] ELSE None

GetAacSequenceHeaderForPublisher(c, k) ==
    IF k \in c.streams THEN c.aac[k] ELSE None

(* ------------------------------ broadcaster ---------------------------- *)
\* a faulty fan-out that puts msg ahead of what was sent to the subscriber
\* before
SendToAllOvertaking(subscribers, msg) ==
    [t \in Sessions |-> IF t \in subscribers THEN <<msg>> \o outbox[t]
                        ELSE outbox[t]]

\* outbox after msg was sent to every session of subscribers
SendToAll(subscribers, msg) ==
    [t \in Sessions |-> IF t \in subscribers THEN Append(outbox[t], msg)
                        ELSE outbox[t]]

BroadcastAudio(k, payload, ts) ==
    SendToAll(GetSubscribersForStream(context, k), AudioMessage(payload, ts, k))

BroadcastVideo(k, payload, ts) ==
    SendToAll(GetSubscribersForStream(context, k), VideoMessage(payload, ts, k))

BroadcastMetadata(k, id) ==
    SendToAll(GetSubscribersForStream(context, k), MetadataMessage(id, k))

BroadcastEndOfStream(k) ==
    SendToAll(GetSubscribersForStream(context, k), PlayStop)

(* ---------------------------- socket writers --------------------------- *)
\* an Acknowledgement (generateAckMessage)
AckMessage == OutMsg("Ack", "", "", 0, 0, NoKey, None, 0)

\* bytes of a message whose Write calls interleaved with another task's
Torn == OutMsg("torn", "", "", 0, 0, NoKey, None, 0)

\* no task is inside a write, no fan-out is in progress, every peer reads
IdleWriters ==
    [writing |-> [c \in Sessions |-> {}],
     raced   |-> [c \in Sessions |-> {}],
     pending |-> [p \in Sessions |-> {}],
     frame   |-> [p \in Sessions |-> AckMessage],
     stalled |-> {},
     acks    |-> 0]

\* task enters the writer of connection c: socketw.Write
EnterWriter(w, task, c) ==
    [w EXCEPT !.writing[c] = @ \cup {task},
              !.raced[c] = IF w.writing[c] = {} THEN @
                           ELSE @ \cup w.writing[c] \cup {task}]

\* task leaves the writer of connection c: socketw.Flush has returned
LeaveWriter(w, task, c) ==
    [w EXCEPT !.writing[c] = @ \ {task}, !.raced[c] = @ \ {task}]

\* what may reach the peer of connection c for msg written by task: msg,
\* or anything if another task wrote to the same bufio.Writer meanwhile
Written(w, task, c, msg) ==
    IF task \in w.raced[c] THEN {msg, Torn} ELSE {msg}

(* ---------------------------- chunk handler ---------------------------- *)
\* chunk types
ChunkType0 == 0
ChunkType1 == 1
ChunkType2 == 2
ChunkType3 == 3
\* the 3-byte timestamp field that announces an extended timestamp (0xFFFFFF)
ExtendedTimestampMark == 16777215

Take(buf, n) == SubSeq(buf, 1, n)
Drop(buf, n) == SubSeq(buf, n + 1, Len(buf))

\* binary.BigEndian / binary.LittleEndian: a value from its bytes
BigEndianUint(b) ==
    LET value[i \in 0..Len(b)] == IF i = 0 THEN 0 ELSE 256 * value[i - 1] + b[i]
    IN value[Len(b)]

LittleEndianUint(b) ==
    LET value[i \in 0..Len(b)] ==
            IF i = 0 THEN 0 ELSE 256 * value[i - 1] + b[Len(b) + 1 - i]
    IN value[Len(b)]

\* the n bytes of a value, most and least significant byte first
BigEndianBytes(v, n) == [i \in 1..n |-> (v \div (256 ^ (n - i))) % 256]
LittleEndianBytes(v, n) == [i \in 1..n |-> (v \div (256 ^ (i - 1))) % 256]

\* ChunkHeader{}: its BasicHeader and MessageHeader fields side by side
ZeroHeader ==
    [FMT |-> 0, ChunkStreamID |-> 0, Timestamp |-> 0, MessageLength |-> 0,
     MessageTypeID |-> 0, MessageStreamID |-> 0, ExtendedTimestamp |-> 0,
     ElapsedTime |-> 0]

\* what a read step returns: err is "" (nil), "EOF" (the socket has fewer
\* bytes than the step waits for) or "nil" (the step dereferences the nil
\* MessageHeader of a chunk stream that has no previous header)
Read(err, header, rest) == [err |-> err, header |-> header, rest |-> rest]

\* readBasicHeader with a two-byte form that does not add 64
readBasicHeaderNoOffset(header, buf) ==
    IF Len(buf) < 1 THEN Read("EOF", header, buf)
    ELSE LET b == buf[1]
             fmt == b \div 64
             csid == b % 64
         IN IF csid = 0
            THEN IF Len(buf) < 2 THEN Read("EOF", header, buf)
                 ELSE Read("", [header EXCEPT !.FMT = fmt,
                                              !.ChunkStreamID = buf[2]],
                           Drop(buf, 2))
            ELSE IF csid = 1
            THEN IF Len(buf) < 3 THEN Read("EOF", header, buf)
                 ELSE Read("", [header EXCEPT
                                  !.FMT = fmt,
                                  !.ChunkStreamID =
                                      BigEndianUint(SubSeq(buf, 2, 3)) + 64],
                           Drop(buf, 3))
            ELSE Read("", [header EXCEPT !.FMT = fmt, !.ChunkStreamID = csid],
                      Drop(buf, 1))

readBasicHeader(header, buf) ==
    IF Len(buf) < 1 THEN Read("EOF", header, buf)
    ELSE LET b == buf[1]
             fmt == b \div 64
             csid == b % 64
         IN IF csid = 0
            THEN IF Len(buf) < 2 THEN Read("EOF", header, buf)
                 ELSE Read("", [header EXCEPT !.FMT = fmt,
                                              !.ChunkStreamID = buf[2] + 64],
                           Drop(buf, 2))
            ELSE IF csid = 1
            THEN IF Len(buf) < 3 THEN Read("EOF", header, buf)
                 ELSE Read("", [header EXCEPT
                                  !.FMT = fmt,
                                  !.ChunkStreamID =
                                      BigEndianUint(SubSeq(buf, 2, 3)) + 64],
                           Drop(buf, 3))
            ELSE Read("", [header EXCEPT !.FMT = fmt, !.ChunkStreamID = csid],
                      Drop(buf, 1))

\* the fields a type-1, type-2 or type-3 header takes from
\* prevChunkHeader[csid].MessageHeader, which is nil when csid has no entry
readMessageHeader(header, buf, prev) ==
    LET csid == header.ChunkStreamID
        known == csid \in DOMAIN prev
    IN CASE header.FMT = ChunkType0 ->
              IF Len(buf) < 11 THEN Read("EOF", header, buf)
              ELSE Read("", [header EXCEPT
                               !.Timestamp = BigEndianUint(<<0>> \o SubSeq(buf, 1, 3)),
                               !.MessageLength = BigEndianUint(<<0>> \o SubSeq(buf, 4, 6)),
                               !.MessageTypeID = buf[7],
                               !.MessageStreamID = LittleEndianUint(SubSeq(buf, 8, 11))],
                        Drop(buf, 11))
         [] header.FMT = ChunkType1 ->
              IF Len(buf) < 7 THEN Read("EOF", header, buf)
              ELSE IF ~known THEN Read("nil", header, Drop(buf, 7))
              ELSE Read("", [header EXCEPT
                               !.Timestamp = BigEndianUint(<<0>> \o SubSeq(buf, 1, 3)),
                               !.MessageLength = BigEndianUint(<<0>> \o SubSeq(buf, 4, 6)),
                               !.MessageTypeID = buf[7],
                               !.MessageStreamID = prev[csid].MessageStreamID],
                        Drop(buf, 7))
         [] header.FMT = ChunkType2 ->
              IF Len(buf) < 3 THEN Read("EOF", header, buf)
              ELSE IF ~known THEN Read("nil", header, Drop(buf, 3))
              ELSE Read("", [header EXCEPT
                               !.Timestamp = BigEndianUint(<<0>> \o SubSeq(buf, 1, 3)),
                               !.MessageLength = prev[csid].MessageLength,
                               !.MessageStreamID = prev[csid].MessageStreamID,
                               !.MessageTypeID = prev[csid].MessageTypeID],
                        Drop(buf, 3))
         [] header.FMT = ChunkType3 ->
              IF ~known THEN Read("nil", header, buf)
              ELSE Read("", [header EXCEPT
                               !.MessageLength = prev[csid].MessageLength,
                               !.MessageTypeID = prev[csid].MessageTypeID,
                               !.MessageStreamID = prev[csid].MessageStreamID],
                        buf)

readExtendedTimestamp(header, buf) ==
    IF Len(buf) < 4 THEN Read("EOF", header, buf)
    ELSE Read("", [header EXCEPT !.ExtendedTimestamp = BigEndianUint(Take(buf, 4))],
              Drop(buf, 4))

\* prevChunkHeader[csid].ElapsedTime, 0 when csid has no entry
PrevElapsedTime(prev, csid) ==
    IF csid \in DOMAIN prev THEN prev[csid].ElapsedTime ELSE 0

\* prevChunkHeader[csid] = ch
Remember(prev, csid, ch) ==
    [c \in DOMAIN prev \cup {csid} |-> IF c = csid THEN ch ELSE prev[c]]

\* a header read together with the prevChunkHeader it leaves
HeaderRead(r, prev) ==
    [err |-> r.err, header |-> r.header, rest |-> r.rest, prev |-> prev]

\* ReadChunkHeader, from csid := ... on: the clock of a type-0 chunk is its
\* timestamp, another chunk adds its timestamp to the clock of the
\* previous header; the header is remembered.  The timestamps of a run
\* add up to less than 2^31, so that the uint32 additions do not wrap
withElapsedTime(header, isExtendedTimestamp, rest, prev) ==
    LET csid == header.ChunkStreamID
        ch == [header EXCEPT !.ElapsedTime =
                 IF header.FMT = ChunkType0
                 THEN IF isExtendedTimestamp THEN header.ExtendedTimestamp
                      ELSE header.Timestamp
                 ELSE IF isExtendedTimestamp
                      THEN PrevElapsedTime(prev, csid) + header.ExtendedTimestamp
                      ELSE PrevElapsedTime(prev, csid) + header.Timestamp]
    IN [err |-> "", header |-> ch, rest |-> rest,
        prev |-> Remember(prev, csid, ch)]

\* ReadChunkHeader once readExtendedTimestamp has returned x
afterExtendedTimestamp(x, prev) ==
    IF x.err # "" THEN HeaderRead(x, prev)
    ELSE withElapsedTime(x.header, TRUE, x.rest, prev)

\* ReadChunkHeader once readMessageHeader has returned m
afterMessageHeader(m, prev) ==
    IF m.err # "" THEN HeaderRead(m, prev)
    ELSE IF m.header.Timestamp = ExtendedTimestampMark
    THEN afterExtendedTimestamp(readExtendedTimestamp(m.header, m.rest), prev)
    ELSE withElapsedTime(m.header, FALSE, m.rest, prev)

\* ReadChunkHeader once readBasicHeader has returned b
afterBasicHeader(b, prev) ==
    IF b.err # "" THEN HeaderRead(b, prev)
    ELSE afterMessageHeader(readMessageHeader(b.header, b.rest, prev), prev)

ReadChunkHeader(buf, prev) ==
    afterBasicHeader(readBasicHeader(ZeroHeader, buf), prev)

\* what ReadChunkData returns, with the bytes and the prevChunkHeader it leaves
DataRead(err, payload, rest, prev) ==
    [err |-> err, payload |-> payload, rest |-> rest, prev |-> prev]

\* one round of the loop of assembleMessage once ReadChunkHeader has
\* returned h: r.payload holds the bytesRead bytes read so far
assembleChunk(r, h, want) ==
    IF h.err # "" THEN DataRead(h.err, r.payload, h.rest, h.prev)
    ELSE IF Len(h.rest) < want THEN DataRead("EOF", r.payload, h.rest, h.prev)
    ELSE DataRead("", r.payload \o Take(h.rest, want), Drop(h.rest, want),
                  h.prev)

assembleRound(r, messageLength, inChunkSize) ==
    IF r.err # "" \/ ~(Len(r.payload) < messageLength) THEN r
    ELSE assembleChunk(r, ReadChunkHeader(r.rest, r.prev),
                       IF Len(r.payload) + inChunkSize < messageLength
                       THEN inChunkSize ELSE messageLength - Len(r.payload))

\* the loop of assembleMessage, which ends after at most messageLength
\* rounds when inChunkSize is at least 1
assembleLoop(first, messageLength, buf, prev, inChunkSize) ==
    LET round[i \in 0..messageLength] ==
          IF i = 0 THEN DataRead("", first, buf, prev)
          ELSE assembleRound(round[i - 1], messageLength, inChunkSize)
    IN round[messageLength]

assembleMessage(messageLength, buf, prev, inChunkSize) ==
    IF Len(buf) < inChunkSize THEN DataRead("EOF", <<>>, buf, prev)
    ELSE assembleLoop(Take(buf, inChunkSize), messageLength,
                      Drop(buf, inChunkSize), prev, inChunkSize)

ReadChunkData(header, buf, prev, inChunkSize) ==
    LET messageLength == header.MessageLength
    IN IF messageLength > inChunkSize
       THEN assembleMessage(messageLength, buf, prev, inChunkSize)
       ELSE IF Len(buf) < messageLength THEN DataRead("EOF", <<>>, buf, prev)
       ELSE DataRead("", Take(buf, messageLength), Drop(buf, messageLength), prev)

\* what reading a message returns: the header of its first chunk, and the
\* error, payload, bytes left and prevChunkHeader of d
MessageRead(header, d) ==
    [err |-> d.err, header |-> header, payload |-> d.payload, rest |-> d.rest,
     prev |-> d.prev]

\* ReadChunkHeader has returned h: ReadChunkData follows unless it failed
afterChunkHeader(h, inChunkSize) ==
    IF h.err # "" THEN MessageRead(h.header, DataRead(h.err, <<>>, h.rest, h.prev))
    ELSE MessageRead(h.header,
                     ReadChunkData(h.header, h.rest, h.prev, inChunkSize))

ReadMessage(buf, prev, inChunkSize) ==
    afterChunkHeader(ReadChunkHeader(buf, prev), inChunkSize)

\* a message: chunk stream id, message stream id, timestamp, type id, payload
Message(csid, msid, timestamp, type, payload) ==
    [csid |-> csid, msid |-> msid, timestamp |-> timestamp, type |-> type,
     payload |-> payload]

NoMessage == Message(0, 0, 0, 0, <<>>)

\* the basic header of chunk stream csid: one byte up to 63, the escape 0
\* and one byte up to 319, the escape 1 and two bytes above
BasicHeader(fmt, csid) ==
    IF csid < 64 THEN <<fmt * 64 + csid>>
    ELSE IF csid < 320 THEN <<fmt * 64, csid - 64>>
    ELSE <<fmt * 64 + 1>> \o BigEndianBytes(csid - 64, 2)

\* the 3-byte timestamp field and the extended timestamp that follows the
\* message header
TimestampField(t) ==
    BigEndianBytes(IF t >= ExtendedTimestampMark THEN ExtendedTimestampMark ELSE t, 3)

ExtendedField(t) ==
    IF t >= ExtendedTimestampMark THEN BigEndianBytes(t, 4) ELSE <<>>

\* the type-0 chunk header of message m
Type0Header(m) ==
    BasicHeader(ChunkType0, m.csid) \o TimestampField(m.timestamp)
        \o BigEndianBytes(Len(m.payload), 3) \o <<m.type>>
        \o LittleEndianBytes(m.msid, 4) \o ExtendedField(m.timestamp)

\* the loop of ChunkHandler.send, which ends after at most len(payload)
\* rounds: the payload with chunk3Header between the slices of chunkSize
\* bytes
sendLoop(payload, chunkSize, chunk3Header) ==
    LET payloadLength == Len(payload)
        round[i \in 0..payloadLength] ==
          IF i = 0 THEN [bytesWritten |-> 0, firstPayloadChunk |-> TRUE, out |-> <<>>]
          ELSE LET r == round[i - 1]
                   separator == IF ~r.firstPayloadChunk THEN <<chunk3Header>>
                                ELSE <<>>
               IN IF ~(r.bytesWritten < payloadLength) THEN r
                  ELSE IF r.bytesWritten + chunkSize < payloadLength
                  THEN [bytesWritten |-> r.bytesWritten + chunkSize,
                        firstPayloadChunk |-> FALSE,
                        out |-> r.out \o separator
                                  \o SubSeq(payload, r.bytesWritten + 1,
                                            r.bytesWritten + chunkSize)]
                  ELSE [bytesWritten |-> payloadLength,
                        firstPayloadChunk |-> FALSE,
                        out |-> r.out \o separator
                                  \o SubSeq(payload, r.bytesWritten + 1,
                                            payloadLength)]
    IN round[payloadLength].out

\* send that splits a payload only when it is two bytes or more over the
\* chunk size
sendWholeAtBoundary(header, payload, outChunkSize) ==
    IF Len(payload) > outChunkSize + 1
    THEN header \o sendLoop(payload, outChunkSize,
                            ChunkType3 * 64 + (header[1] % 64))
    ELSE header \o payload

\* the bytes ChunkHandler.send(header, payload) flushes into the socket
send(header, payload, outChunkSize) ==
    IF Len(payload) > outChunkSize
    THEN header \o sendLoop(payload, outChunkSize,
                            ChunkType3 * 64 + (header[1] % 64))
    ELSE header \o payload

\* a chunk handler after NewChunkHandler, both chunk sizes set to n, and
\* the history of a connection nothing was written to
\* socketw holds the protocol control messages written; windowAckSize,
\* bytesReceived, outBandwidth and limit are left at their zero values
NewChunkHandler(n) ==
    [socketr |-> <<>>, socketw |-> <<>>, prevChunkHeader |-> <<>>,
     inChunkSize |-> n, outChunkSize |-> n, windowAckSize |-> 0,
     bytesReceived |-> 0, outBandwidth |-> 0, limit |-> 0, ackSent |-> FALSE]

\* the chunk size of NewChunkHandler
DefaultMaximumChunkSize == 128

\* generateAckMessage(sequenceNumber)
generateAckMessage(sequenceNumber) ==
    OutMsg("Ack", "", "", sequenceNumber, 0, NoKey, None, 0)

\* the chunk handler h after sendAck
sendAck(h) ==
    [h EXCEPT !.socketw = Append(@, generateAckMessage(h.bytesReceived)),
              !.bytesReceived = 0,
              !.ackSent = TRUE]

\* after updateBytesReceived(i); the counts of a run stay far below 2^32
afterBytesReceived(h) ==
    IF h.bytesReceived >= h.windowAckSize THEN sendAck(h) ELSE h

updateBytesReceived(h, i) ==
    afterBytesReceived([h EXCEPT !.bytesReceived = @ + i])

\* sendSetChunkSize that takes the size for both directions
sendSetChunkSizeBothWays(h, size) ==
    [h EXCEPT !.socketw = Append(@, SetChunkSizeMessage(size)),
              !.outChunkSize = size,
              !.inChunkSize = size]

sendSetChunkSize(h, size) ==
    [h EXCEPT !.socketw = Append(@, SetChunkSizeMessage(size)),
              !.outChunkSize = size]

SetChunkSize(h, size) ==
    [h EXCEPT !.inChunkSize = size]

\* SetWindowAckSize that acknowledges whenever it is called
SetWindowAckSizeAlwaysAcks(h, size) ==
    [sendAck(h) EXCEPT !.windowAckSize = size]

SetWindowAckSize(h, size) ==
    [(IF ~h.ackSent THEN sendAck(h) ELSE h) EXCEPT !.windowAckSize = size]

\* the body of SetBandwidth is a comment
SetBandwidth(h, size, limitType) == h

\* a protocol control message received or sent, or a chunk read: its kind
\* and its two values
Control(kind, a, b) == [kind |-> kind, a |-> a, b |-> b]
NoControl == Control("none", 0, 0)

\* the value of a Set-Chunk-Size message, top * 2^31 + low, and its 31-bit
\* value
MaxInt31 == 2147483647
SetChunkSizeValues ==
    {[top |-> top, low |-> low] : top \in {0, 1}, low \in {0, 1, 4096, MaxInt31}}
Low31(v) == v.low

\* the sizes of SpecControl: the chunk sizes announced, the window sizes
\* and bandwidths received, the limit types, and the bytes of a chunk
\* after its basic header
SentChunkSizes == {DefaultMaximumChunkSize, DefaultChunkSize}
WindowSizes == {4, 6}
LimitTypes == {0, 1, LimitDynamic}
ChunkRest == {1, 3}

\* control: the protocol control message handled last; unacked: the bytes
\* read since the last Acknowledgement was written;
\* bytes: the bytes the connection held before a basic header was read;
\* header: the chunk header the last read returned;
\* mixed: the two messages the peer wrote last with their chunks
\* interleaved; delivered: the messages read since the peer last wrote;
\* sent and received: the message written and the message read last; err:
\* the error of the last read; n and reads: messages written and reads
\* made; clock, delta and length: per chunk stream, the time the peer's
\* messages add up to, the delta of its last message and that message's
\* length
\* a read that is not inside assembleMessage: pc is "idle" or "loop",
\* payload holds the bytesRead bytes read so far, headers counts the chunk
\* headers read for the message, msgs, sets and fed what the peer has sent
NotAssembling ==
    [pc |-> "idle", payload |-> <<>>, headers |-> 0,
     msgs |-> 0, sets |-> 0, fed |-> 0]

NoPeer ==
    [sent |-> NoMessage, received |-> NoMessage, err |-> "", n |-> 0,
     reads |-> 0, clock |-> <<>>, delta |-> <<>>, length |-> <<>>,
     mixed |-> <<>>, delivered |-> <<>>, header |-> ZeroHeader,
     bytes |-> <<>>, control |-> NoControl, unacked |-> 0,
     assembling |-> NotAssembling]

\* the chunk sizes, chunk stream ids, timestamps and payloads of
\* SpecChunk: every form of basic header, timestamps on both sides of
\* 0xFFFFFF, payloads of every length up to MaxPayload
ChunkSizes == 1..MaxChunkSize
WireCsids == {3, 64, 320}
Timestamps == {0, ExtendedTimestampMark - 1, ExtendedTimestampMark,
               ExtendedTimestampMark + 1}
Payload(n, seed) == [i \in 1..n |-> (seed + i) % 256]
Payloads == {Payload(n, seed) : n \in 0..MaxPayload, seed \in {255, 6}}
VideoType == 9
Messages ==
    {Message(c, DefaultPublishStream + 1, t, VideoType, p) :
        c \in WireCsids, t \in Timestamps, p \in Payloads}

\* the bytes a basic header is read from: every chunk type with the low
\* six bits 0, 1, 2, 3 and 63, then the smallest and largest bytes, and
\* what is left of them when the connection ends early
LowBits == {0, 1, 2, 3, 63}
IdBytes == {0, 1, 255}
BasicHeaderBytes ==
    {Take(<<fmt * 64 + low, b, c>>, k) :
        fmt \in {ChunkType0, ChunkType1, ChunkType2, ChunkType3},
        low \in LowBits, b \in IdBytes, c \in IdBytes, k \in 1..3}

\* the ceiling a session is configured with for the length of a message:
\* the longest payload of the model is one byte above it
MessageCeiling == MaxPayload - 1

\* the messages of SpecSplit: payloads of every length up to MaxPayload on
\* the smallest and the largest chunk stream id of a one-byte basic header
SplitCsids == {3, 63}
SplitMessages ==
    {Message(c, DefaultPublishStream + 1, 0, VideoType, p) :
        c \in SplitCsids, p \in Payloads}

\* the chunk stream ids and timestamps of SpecElapsed: one-byte basic
\* headers, small deltas and an extended one
ElapsedCsids == {4, 5}
\* the peer sends audio (type 8, stream 1) on the audio channel 4 and
\* video (type 9, stream 2) on the video channel 5
AudioType == 8
TypeOn(csid) == IF csid = 4 THEN AudioType ELSE VideoType
StreamOn(csid) == IF csid = 4 THEN DefaultPublishStream + 1 ELSE DefaultPublishStream + 2
ElapsedTimestamps == {0, 5, ExtendedTimestampMark}

(* ----------------------- rtmp/session.go: Run -------------------------- *)
RtmpVersion3 == 3
\* the size of C1, S1, C2 and S2
HandshakeSize == 1536
\* the largest TCP segment of the peer's connection
SegmentSize == 1460

Zeros(n) == [i \in 1..n |-> 0]
Min(a, b) == IF a < b THEN a ELSE b

\* the C1 a client makes from seed: no byte of it is zero
C1Of(seed) == [i \in 1..HandshakeSize |-> 1 + ((seed + i) % 255)]

\* the first bytes of the chunk stream a client sends after C2: the basic
\* header of a type-0 chunk on chunk stream 3
FirstChunk == <<3>>
\* the bytes rand.GenerateRandomDataFromBuffer fills S1 with, and the C0
\* bytes and C1 seeds of the clients
RandomBytes == {85, 170}
ClientVersions == {RtmpVersion3, 6}
ClientSeeds == {0, 1}

\* a session of package rtmp/ that is not run
IdleSession ==
    [pc |-> "idle", c1 |-> <<>>, s1 |-> <<>>, socketr |-> <<>>, unsent |-> <<>>,
     out |-> <<>>, answered |-> FALSE, closed |-> FALSE, got |-> 0,
     log |-> <<>>, err |-> "", c0 |-> 0, c1sent |-> <<>>]

\* NewSession, and a client that has written C0 = c0 and the C1 of seed
\* to its socket
NewSession(c0, seed) ==
    [IdleSession EXCEPT !.pc = "readC0C1", !.unsent = <<c0>> \o C1Of(seed),
                        !.c0 = c0, !.c1sent = C1Of(seed)]

\* session.read(bytes) with len(bytes) = n is one socket.Read: it returns
\* as soon as it has read the k >= 1 bytes the socket holds, up to n, and
\* leaves the other bytes of the array zero; at the end of the stream it
\* returns io.EOF
read(buf, n) ==
    LET k == Min(Len(buf), n)
    IN [err |-> IF k = 0 THEN "EOF" ELSE "", k |-> k,
        bytes |-> Take(buf, k) \o Zeros(n - k), rest |-> Drop(buf, k)]

\* a step of Run read k bytes of the peer's stream, or wrote to the peer
Logged(r, step, k) ==
    [r EXCEPT !.got = @ + k,
              !.log = Append(@, [step |-> step, from |-> r.got, k |-> k,
                                 out |-> Len(r.out)])]

\* Run returns err after DestroySession and conn.Close
Returns(r, err) == [r EXCEPT !.pc = "closed", !.err = err]

(* --------------------- session.go: StartPlayback ----------------------- *)
\* a field an info object does not have
NoField == "<none>"
Info(level, code) == [level |-> level, code |-> code]

\* the info objects a server sends with _result and onStatus
InfoObjects ==
    {Info(level, code) :
        level \in {NoField, "status", "warning", "error"},
        code \in {NoField, "NetConnection.Connect.Success",
                  "NetConnection.Connect.Rejected"}}

\* a message dispatched to a callback of the client, and none
Received(kind, info) == [kind |-> kind, info |-> info]
NothingReceived == Received("none", Info(NoField, NoField))

\* the requests of a client: sendSetChunkSize, requestConnect,
\* requestCreateStream, requestPlay
Request(type, arg) == [type |-> type, arg |-> arg]
SetChunkSizeRequest == Request("SetChunkSize", DefaultChunkSize)
ConnectRequest == Request("connect", 0)
CreateStreamRequest == Request("createStream", 2)
PlayRequest(k) == Request("play", k)

\* no session is in client mode
NoPlayback ==
    [pc |-> "idle", active |-> TRUE, streamKey |-> NoKey, out |-> <<>>,
     last |-> NothingReceived, n |-> 0, err |-> ""]

\* a client session for stream key k, before StartPlayback
NewPlayback(k) == [NoPlayback EXCEPT !.pc = "start", !.streamKey = k]

(* ---------------------------- session guard ---------------------------- *)
\* no session guard is installed: GetSessionGuard() returns nil
NoGuard == [installed |-> FALSE, denied |-> {}]

\* a session guard whose Check rejects the sessions that publish a key of D
GuardDenying(D) == [installed |-> TRUE, denied |-> D]

\* guard.Check(session), called once session.streamKey is k
Check(g, k) == k \notin g.denied

(* -------------------------------- Init --------------------------------- *)
NoLast == [sess |-> 0, msg |-> NoMsg]

Budget(keys, connects, cmds, frames, errors) ==
    [keys |-> keys, connects |-> connects, cmds |-> cmds, frames |-> frames,
     errors |-> errors]

\* the sessions of the relay before any connection is accepted
InitSessions ==
    /\ pc = [s \in Sessions |-> "handshake"]
    /\ active = [s \in Sessions |-> TRUE]
    /\ app = [s \in Sessions |-> ""]
    /\ streamKey = [s \in Sessions |-> NoKey]
    /\ isPublisher = [s \in Sessions |-> FALSE]
    /\ isPlayer = [s \in Sessions |-> FALSE]
    /\ outbox = [s \in Sessions |-> <<>>]
    /\ context = EmptyContext
    /\ guardEnded = {}
    /\ holder = [k \in Keys |-> 0]
    /\ last = NoLast
    /\ nConnects = 0
    /\ nCmds = 0
    /\ nFrames = 0
    /\ nErrors = 0
    /\ socketw = IdleWriters

\* the server after construction, before any connection is accepted
InitServer ==
    /\ InitSessions
    /\ chunkHandler = NewChunkHandler(MaxChunkSize)
    /\ peer = NoPeer
    /\ playback = NoPlayback
    /\ rtmpSession = IdleSession

\* no relay session is served
NoSessions ==
    /\ InitSessions
    /\ guard = NoGuard
    /\ client = [s \in Sessions |-> {}]
    /\ budget = Budget(0, 0, 0, 0, 0)

\* what an encoder and what a player send
Encoder == {"publish", "audio", "video"}
Player == {"play"}

\* the last connection is a player's and the others are encoders'; there is
\* no session guard, or one that rejects the last key
Init ==
    /\ InitServer
    /\ guard \in {NoGuard, GuardDenying({NumKeys})}
    /\ client = [s \in Sessions |-> IF s < NumSessions THEN Encoder ELSE Player]
    /\ budget = Budget(NumKeys, 0, MaxCmds, MaxFrames, MaxErrors)

\* ConnSessions peers that connect, publish and play; no session guard
InitConnect ==
    /\ InitServer
    /\ guard = NoGuard
    /\ client = [s \in Sessions |-> IF s <= ConnSessions
                                    THEN {"connect", "publish", "play"} ELSE {}]
    /\ budget = Budget(ConnKeys, ConnConnects, ConnCmds, 0, ConnErrors)

\* one encoder and PlaySessions - 1 players; no session guard
InitPlay ==
    /\ InitServer
    /\ guard = NoGuard
    /\ client = [s \in Sessions |-> IF s = 1 THEN Encoder
                                    ELSE IF s <= PlaySessions THEN Player ELSE {}]
    /\ budget = Budget(PlayKeys, 0, PlayCmds, PlayFrames, PlayErrors)

\* one peer that publishes and CmdSessions - 1 players, no media; there is
\* no session guard, or one that rejects the last key
InitCmd ==
    /\ InitServer
    /\ guard \in {NoGuard, GuardDenying({CmdKeys})}
    /\ client = [s \in Sessions |-> IF s = 1 THEN {"publish"}
                                    ELSE IF s <= CmdSessions THEN Player ELSE {}]
    /\ budget = Budget(CmdKeys, 0, CmdCmds, 0, CmdErrors)

\* MixedSessions peers that publish, play and send audio, video and
\* metadata; no session guard
InitMixed ==
    /\ InitServer
    /\ guard = NoGuard
    /\ client = [s \in Sessions |-> IF s <= MixedSessions
                                    THEN {"publish", "play", "audio", "video", "metadata"}
                                    ELSE {}]
    /\ budget = Budget(MixedKeys, 0, MixedCmds, MixedFrames, MixedErrors)

\* one encoder and WriterSessions - 1 players; no session guard
InitWriter ==
    /\ InitServer
    /\ guard = NoGuard
    /\ client = [s \in Sessions |-> IF s = 1 THEN Encoder
                                    ELSE IF s <= WriterSessions THEN Player ELSE {}]
    /\ budget = Budget(WriterKeys, 0, WriterCmds, WriterFrames, 0)

\* one connection whose chunk handler has both chunk sizes set to N
InitChunk ==
    /\ NoSessions
    /\ chunkHandler \in {NewChunkHandler(n) : n \in ChunkSizes}
    /\ peer = NoPeer
    /\ playback = NoPlayback
    /\ rtmpSession = IdleSession

\* a connection that holds the first bytes of a chunk
InitBasic ==
    /\ NoSessions
    /\ \E b \in BasicHeaderBytes :
         /\ chunkHandler = [NewChunkHandler(MaxChunkSize) EXCEPT !.socketr = b]
         /\ peer = [NoPeer EXCEPT !.bytes = b]
    /\ playback = NoPlayback
    /\ rtmpSession = IdleSession

\* a connection after NewChunkHandler
InitControl ==
    /\ NoSessions
    /\ chunkHandler = NewChunkHandler(DefaultMaximumChunkSize)
    /\ peer = NoPeer
    /\ playback = NoPlayback
    /\ rtmpSession = IdleSession

\* one connection of package rtmp/, whose client has written C0 and C1
InitHandshake ==
    /\ NoSessions
    /\ chunkHandler = NewChunkHandler(MaxChunkSize)
    /\ peer = NoPeer
    /\ playback = NoPlayback
    /\ rtmpSession \in {NewSession(c0, seed) : c0 \in ClientVersions,
                                               seed \in ClientSeeds}

(* ------------------------- Session.Start ------------------------------- *)
\* Listen accepts the connections one after the other (s names them in
\* that order); messageManager.Initialize(): the handshake succeeds or
\* Start returns its error before the cleanup is deferred
Handshake(s) ==
    /\ pc[s] = "handshake"
    /\ client[s] # {}
    /\ \A t \in Sessions : t < s => pc[t] # "handshake"
    /\ \E ok \in BOOLEAN : pc' = [pc EXCEPT ![s] = IF ok THEN "read" ELSE "done"]
    /\ last' = NoLast
    /\ UNCHANGED <<active, app, streamKey, isPublisher, isPlayer, outbox,
                   context, guardEnded, holder, env, wire, counters>>

\* audio/video messages: the sequence header of the cached codec (byte 1
\* is 0) and a frame of it
Media(c, id) ==
    {InMsg(c, "", NoKey, "main", pkt, id) : pkt \in {0, 1}}

\* for session.active { nextMessage() }: message m is decoded by session s
\* and handed to its callback
Reads(s, m) ==
    /\ pc[s] = "read"
    /\ active[s]
    /\ m.cmd \in client[s]
    /\ last' = [sess |-> s, msg |-> m]
    /\ IF m.cmd = "connect"
       THEN nConnects < budget.connects /\ nConnects' = nConnects + 1
       ELSE UNCHANGED nConnects
    /\ IF m.cmd \in {"publish", "play"}
       THEN nCmds < budget.cmds /\ nCmds' = nCmds + 1
       ELSE UNCHANGED nCmds
    /\ IF m.cmd \in {"audio", "video", "metadata"}
       THEN nFrames < budget.frames /\ nFrames' = nFrames + 1
       ELSE UNCHANGED nFrames
    /\ UNCHANGED <<nErrors, env, wire>>

\* nextMessage returns an error (EOF, decode error): Start returns it
ReadError(s) ==
    /\ pc[s] = "read"
    /\ active[s]
    /\ nErrors < budget.errors
    /\ nErrors' = nErrors + 1
    /\ pc' = [pc EXCEPT ![s] = "cleanup"]
    /\ last' = NoLast
    /\ UNCHANGED <<active, app, streamKey, isPublisher, isPlayer, outbox,
                   context, guardEnded, holder, env, wire, nConnects, nCmds, nFrames>>

\* the loop condition session.active is false: Start returns nil
LoopExit(s) ==
    /\ pc[s] = "read"
    /\ ~active[s]
    /\ pc' = [pc EXCEPT ![s] = "cleanup"]
    /\ last' = NoLast
    /\ UNCHANGED <<active, app, streamKey, isPublisher, isPlayer, outbox,
                   context, guardEnded, holder, env, wire, counters>>

(* ----------------------- the deferred cleanup -------------------------- *)
\* a teardown that tells the guard of the end of every session
CleanupSubscriberEndsGuard(s) ==
    /\ pc[s] = "cleanup"
    /\ context' = IF isPlayer[s] THEN DestroySubscriber(context, streamKey[s], s)
                  ELSE context
    /\ guardEnded' = IF guard.installed THEN guardEnded \cup {s} ELSE guardEnded
    /\ pc' = [pc EXCEPT ![s] = IF isPublisher[s] THEN "eos" ELSE "done"]
    /\ last' = NoLast
    /\ UNCHANGED <<active, app, streamKey, isPublisher, isPlayer, outbox,
                   holder, env, wire, counters>>

CleanupSubscriber(s) ==
    /\ pc[s] = "cleanup"
    /\ context' = IF isPlayer[s] THEN DestroySubscriber(context, streamKey[s], s)
                  ELSE context
    /\ pc' = [pc EXCEPT ![s] = IF isPublisher[s] THEN "eos" ELSE "done"]
    /\ last' = NoLast
    /\ UNCHANGED <<active, app, streamKey, isPublisher, isPlayer, outbox,
                   guardEnded, holder, env, wire, counters>>

CleanupEndOfStream(s) ==
    /\ pc[s] = "eos"
    /\ outbox' = BroadcastEndOfStream(streamKey[s])
    /\ pc' = [pc EXCEPT ![s] = "destroy"]
    /\ last' = NoLast
    /\ UNCHANGED <<active, app, streamKey, isPublisher, isPlayer,
                   context, guardEnded, holder, env, wire, counters>>

CleanupDestroyPublisher(s) ==
    /\ pc[s] = "destroy"
    /\ context' = DestroyPublisher(context, streamKey[s])
    /\ holder' = [k \in Keys |-> IF k = streamKey[s] THEN 0 ELSE holder[k]]
    /\ guardEnded' = IF guard.installed THEN guardEnded \cup {s} ELSE guardEnded
    /\ pc' = [pc EXCEPT ![s] = "done"]
    /\ last' = NoLast
    /\ UNCHANGED <<active, app, streamKey, isPublisher, isPlayer, outbox,
                   env, wire, counters>>

(* ------------------------------ handlers ------------------------------- *)
\* the five messages of the connect sequence, in the order they are sent
ConnectSequence ==
    << WindowAckSizeMessage(DefaultClientWindowSize),
       SetPeerBandwidthMessage(DefaultClientWindowSize, LimitDynamic),
       StreamBeginMessage(DefaultPublishStream),
       SetChunkSizeMessage(DefaultChunkSize),
       ConnectSuccessMessage >>

\* a faulty onConnect that sends Set-Chunk-Size after the _result
onConnectChunkSizeLast(s) ==
    \E a \in Apps :
        /\ Reads(s, InMsg("connect", a, NoKey, "", 0, 0))
        /\ app' = [app EXCEPT ![s] = a]
        /\ IF a = ServerApp
           THEN /\ outbox' = [outbox EXCEPT ![s] = @ \o
                       << WindowAckSizeMessage(DefaultClientWindowSize),
                          SetPeerBandwidthMessage(DefaultClientWindowSize, LimitDynamic),
                          StreamBeginMessage(DefaultPublishStream),
                          ConnectSuccessMessage,
                          SetChunkSizeMessage(DefaultChunkSize) >>]
                /\ UNCHANGED active
           ELSE /\ active' = [active EXCEPT ![s] = FALSE]
                /\ UNCHANGED outbox
        /\ UNCHANGED <<pc, streamKey, isPublisher, isPlayer, context,
                       guardEnded, holder>>

\* a faulty onConnect that leaves the session active when the app is wrong
onConnectKeepsActive(s) ==
    \E a \in Apps :
        /\ Reads(s, InMsg("connect", a, NoKey, "", 0, 0))
        /\ app' = [app EXCEPT ![s] = a]
        /\ IF a = ServerApp
           THEN outbox' = [outbox EXCEPT ![s] = @ \o ConnectSequence]
           ELSE UNCHANGED outbox
        /\ UNCHANGED <<pc, active, streamKey, isPublisher, isPlayer, context,
                       guardEnded, holder>>

onConnect(s) ==
    \E a \in Apps :
        /\ Reads(s, InMsg("connect", a, NoKey, "", 0, 0))
        /\ app' = [app EXCEPT ![s] = a]
        /\ IF a = ServerApp
           THEN /\ outbox' = [outbox EXCEPT ![s] = @ \o ConnectSequence]
                /\ UNCHANGED active
           ELSE /\ active' = [active EXCEPT ![s] = FALSE]
                /\ UNCHANGED outbox
        /\ UNCHANGED <<pc, streamKey, isPublisher, isPlayer, context,
                       guardEnded, holder>>

\* a faulty onPublish that marks the session publisher before it asks the
\* guard
onPublishMarksBeforeCheck(s) ==
    \E k \in 1..budget.keys :
        /\ Reads(s, InMsg("publish", "", k, "", 0, 0))
        /\ streamKey' = [streamKey EXCEPT ![s] = k]
        /\ isPublisher' = [isPublisher EXCEPT ![s] = TRUE]
        /\ IF guard.installed /\ ~Check(guard, k)
           THEN /\ outbox' = [outbox EXCEPT ![s] = Append(@, PlayStop)]
                /\ active' = [active EXCEPT ![s] = FALSE]
                /\ UNCHANGED <<context, holder>>
           ELSE /\ outbox' = [outbox EXCEPT ![s] = Append(@, PublishStart(k))]
                /\ context' = RegisterPublisher(context, k)
                /\ holder' = IF StreamExists(context, k) THEN holder
                             ELSE [holder EXCEPT ![k] = s]
                /\ UNCHANGED active
        /\ UNCHANGED <<pc, app, isPlayer, guardEnded>>

onPublish(s) ==
    \E k \in 1..budget.keys :
        /\ Reads(s, InMsg("publish", "", k, "", 0, 0))
        /\ streamKey' = [streamKey EXCEPT ![s] = k]
        /\ IF guard.installed /\ ~Check(guard, k)
           THEN \* the guard rejects the session
                /\ outbox' = [outbox EXCEPT ![s] = Append(@, PlayStop)]
                /\ active' = [active EXCEPT ![s] = FALSE]
                /\ UNCHANGED <<isPublisher, context, holder>>
           ELSE \* no guard, or the guard accepts the session
                /\ outbox' = [outbox EXCEPT ![s] = Append(@, PublishStart(k))]
                /\ isPublisher' = [isPublisher EXCEPT ![s] = TRUE]
                /\ context' = RegisterPublisher(context, k)
                /\ holder' = IF StreamExists(context, k) THEN holder
                             ELSE [holder EXCEPT ![k] = s]
                /\ UNCHANGED active
        /\ UNCHANGED <<pc, app, isPlayer, guardEnded>>

\* a faulty onPlay that marks the session player before it looks the key up
onPlayMarksPlayerFirst(s) ==
    \E k \in 1..budget.keys :
        /\ Reads(s, InMsg("play", "", k, "", 0, 0))
        /\ streamKey' = [streamKey EXCEPT ![s] = k]
        /\ isPlayer' = [isPlayer EXCEPT ![s] = TRUE]
        /\ IF ~StreamExists(context, k)
           THEN /\ outbox' = [outbox EXCEPT ![s] = Append(@, StreamNotFound(k))]
                /\ UNCHANGED pc
           ELSE /\ outbox' = [outbox EXCEPT ![s] = Append(@, PlayStart(k))]
                /\ pc' = [pc EXCEPT ![s] = "playAvc"]
        /\ UNCHANGED <<active, app, isPublisher, context, guardEnded, holder>>

\* a faulty onPlay that registers the subscriber before the sequence
\* headers are sent
onPlayRegistersFirst(s) ==
    \E k \in 1..budget.keys :
        /\ Reads(s, InMsg("play", "", k, "", 0, 0))
        /\ streamKey' = [streamKey EXCEPT ![s] = k]
        /\ IF ~StreamExists(context, k)
           THEN /\ outbox' = [outbox EXCEPT ![s] = Append(@, StreamNotFound(k))]
                /\ UNCHANGED <<pc, context>>
           ELSE /\ outbox' = [outbox EXCEPT ![s] = Append(@, PlayStart(k))]
                /\ context' = RegisterSubscriber(context, k, s)
                /\ pc' = [pc EXCEPT ![s] = "playAvc"]
        /\ UNCHANGED <<active, app, isPublisher, isPlayer, guardEnded, holder>>

\* onPlay up to the first message it sends
onPlay(s) ==
    \E k \in 1..budget.keys :
        /\ Reads(s, InMsg("play", "", k, "", 0, 0))
        /\ streamKey' = [streamKey EXCEPT ![s] = k]
        /\ IF ~StreamExists(context, k)
           THEN /\ outbox' = [outbox EXCEPT ![s] = Append(@, StreamNotFound(k))]
                /\ UNCHANGED pc
           ELSE /\ outbox' = [outbox EXCEPT ![s] = Append(@, PlayStart(k))]
                /\ pc' = [pc EXCEPT ![s] = "playAvc"]
        /\ UNCHANGED <<active, app, isPublisher, isPlayer, context,
                       guardEnded, holder>>

\* onPlay: the cached AVC sequence header is fetched and sent
onPlayAvc(s) ==
    /\ pc[s] = "playAvc"
    /\ LET h == GetAvcSequenceHeaderForPublisher(context, streamKey[s])
       IN outbox' = IF h # None
                    THEN [outbox EXCEPT ![s] = Append(@, VideoMessage(h, 0, streamKey[s]))]
                    ELSE outbox
    /\ pc' = [pc EXCEPT ![s] = "playAac"]
    /\ last' = NoLast
    /\ UNCHANGED <<active, app, streamKey, isPublisher, isPlayer,
                   context, guardEnded, holder, env, wire, counters>>

\* onPlay: the cached AAC sequence header is fetched and sent
onPlayAac(s) ==
    /\ pc[s] = "playAac"
    /\ LET h == GetAacSequenceHeaderForPublisher(context, streamKey[s])
       IN outbox' = IF h # None
                    THEN [outbox EXCEPT ![s] = Append(@, AudioMessage(h, 0, streamKey[s]))]
                    ELSE outbox
    /\ pc' = [pc EXCEPT ![s] = "playReg"]
    /\ last' = NoLast
    /\ UNCHANGED <<active, app, streamKey, isPublisher, isPlayer,
                   context, guardEnded, holder, env, wire, counters>>

\* onPlay: the session becomes a player and is registered
onPlayRegister(s) ==
    /\ pc[s] = "playReg"
    /\ isPlayer' = [isPlayer EXCEPT ![s] = TRUE]
    /\ context' = RegisterSubscriber(context, streamKey[s], s)
    /\ pc' = [pc EXCEPT ![s] = "read"]
    /\ last' = NoLast
    /\ UNCHANGED <<active, app, streamKey, isPublisher, outbox,
                   guardEnded, holder, env, wire, counters>>

onAudioMessage(s) ==
    \E m \in Media("audio", nFrames + 1) :
        /\ Reads(s, m)
        /\ context' = IF m.codec = "main" /\ m.pkt = 0
                      THEN SetAacSequenceHeaderForPublisher(context, streamKey[s], PayloadOf(m))
                      ELSE context
        /\ outbox' = BroadcastAudio(streamKey[s], PayloadOf(m), m.id)
        /\ UNCHANGED <<pc, active, app, streamKey, isPublisher, isPlayer,
                       guardEnded, holder>>

onVideoMessage(s) ==
    \E m \in Media("video", nFrames + 1) :
        /\ Reads(s, m)
        /\ context' = IF m.codec = "main" /\ m.pkt = 0
                      THEN SetAvcSequenceHeaderForPublisher(context, streamKey[s], PayloadOf(m))
                      ELSE context
        /\ outbox' = BroadcastVideo(streamKey[s], PayloadOf(m), m.id)
        /\ UNCHANGED <<pc, active, app, streamKey, isPublisher, isPlayer,
                       guardEnded, holder>>

\* onMetadata of a server session without a callback
onMetadata(s) ==
    \E m \in {InMsg("metadata", "", NoKey, "", 0, nFrames + 1)} :
        /\ Reads(s, m)
        /\ outbox' = BroadcastMetadata(streamKey[s], m.id)
        /\ UNCHANGED <<pc, active, app, streamKey, isPublisher, isPlayer,
                       context, guardEnded, holder>>

(* ----------------- the fan-out, one socket write at a time -------------- *)
\* onAudioMessage / onVideoMessage up to the subscriber list that
\* BroadcastAudio / BroadcastVideo obtains from the context store
ReadsFrame(p) ==
    \E m \in Media("audio", nFrames + 1) \cup Media("video", nFrames + 1) :
        /\ pc[p] = "read"
        /\ active[p]
        /\ m.cmd \in client[p]
        /\ nFrames < budget.frames
        /\ nFrames' = nFrames + 1
        /\ last' = [sess |-> p, msg |-> m]
        /\ context' =
             IF m.codec = "main" /\ m.pkt = 0
             THEN IF m.cmd = "audio"
                  THEN SetAacSequenceHeaderForPublisher(context, streamKey[p], PayloadOf(m))
                  ELSE SetAvcSequenceHeaderForPublisher(context, streamKey[p], PayloadOf(m))
             ELSE context
        /\ socketw' =
             [socketw EXCEPT
                !.pending[p] = GetSubscribersForStream(context, streamKey[p]),
                !.frame[p] = IF m.cmd = "audio"
                             THEN AudioMessage(PayloadOf(m), m.id, streamKey[p])
                             ELSE VideoMessage(PayloadOf(m), m.id, streamKey[p])]
        /\ pc' = [pc EXCEPT ![p] = "fanout"]
        /\ UNCHANGED <<active, app, streamKey, isPublisher, isPlayer, outbox,
                       guardEnded, holder, env, nConnects, nCmds, nErrors,
                   chunks, playback, rtmpSession>>

\* for _, sub := range subscribers: sub.SendAudio / SendVideo runs in the
\* publisher's goroutine p and reaches ChunkHandler.send of subscriber t,
\* which writes header and payload into t's socketw
SendWrite(p, t) ==
    /\ pc[p] = "fanout"
    /\ t \in socketw.pending[p]
    /\ \A c \in Sessions : p \notin socketw.writing[c]
    /\ socketw' = [EnterWriter(socketw, p, t) EXCEPT !.pending[p] = @ \ {t}]
    /\ last' = NoLast
    /\ UNCHANGED <<pc, active, app, streamKey, isPublisher, isPlayer, outbox,
                   context, guardEnded, holder, env, counters,
                   chunks, playback, rtmpSession>>

\* ChunkHandler.send: socketw.Flush returns, which it does not while the
\* peer of t has stopped reading
SendFlush(p, t) ==
    /\ pc[p] = "fanout"
    /\ p \in socketw.writing[t]
    /\ t \notin socketw.stalled
    /\ \E msg \in Written(socketw, p, t, socketw.frame[p]) :
          outbox' = [outbox EXCEPT ![t] = Append(@, msg)]
    /\ socketw' = LeaveWriter(socketw, p, t)
    /\ last' = NoLast
    /\ UNCHANGED <<pc, active, app, streamKey, isPublisher, isPlayer,
                   context, guardEnded, holder, env, counters,
                   chunks, playback, rtmpSession>>

\* the range loop is over: the broadcast and the handler return
FanOutDone(p) ==
    /\ pc[p] = "fanout"
    /\ socketw.pending[p] = {}
    /\ \A c \in Sessions : p \notin socketw.writing[c]
    /\ pc' = [pc EXCEPT ![p] = "read"]
    /\ last' = NoLast
    /\ UNCHANGED <<active, app, streamKey, isPublisher, isPlayer, outbox,
                   context, guardEnded, holder, env, wire, counters>>

\* updateBytesReceived: the bytes read by connection t's own task reach
\* the window size; sendAck writes the Acknowledgement into t's socketw
AckWrite(t) ==
    /\ pc[t] = "read"
    /\ active[t]
    /\ socketw.acks < WriterAcks
    /\ socketw' = [EnterWriter(socketw, t, t) EXCEPT !.acks = @ + 1]
    /\ pc' = [pc EXCEPT ![t] = "ack"]
    /\ last' = NoLast
    /\ UNCHANGED <<active, app, streamKey, isPublisher, isPlayer, outbox,
                   context, guardEnded, holder, env, counters,
                   chunks, playback, rtmpSession>>

\* sendAck: socketw.Flush returns
AckFlush(t) ==
    /\ pc[t] = "ack"
    /\ t \notin socketw.stalled
    /\ \E msg \in Written(socketw, t, t, AckMessage) :
          outbox' = [outbox EXCEPT ![t] = Append(@, msg)]
    /\ socketw' = LeaveWriter(socketw, t, t)
    /\ pc' = [pc EXCEPT ![t] = "read"]
    /\ last' = NoLast
    /\ UNCHANGED <<active, app, streamKey, isPublisher, isPlayer,
                   context, guardEnded, holder, env, counters,
                   chunks, playback, rtmpSession>>

\* the peer of subscriber t stops reading from its socket: from now on a
\* flush to t does not return
Stall(t) ==
    /\ \E k \in Keys : t \in context.subs[k]
    /\ Cardinality(socketw.stalled) < WriterStalls
    /\ t \notin socketw.stalled
    /\ socketw' = [socketw EXCEPT !.stalled = @ \cup {t}]
    /\ last' = NoLast
    /\ UNCHANGED <<pc, active, app, streamKey, isPublisher, isPlayer, outbox,
                   context, guardEnded, holder, env, counters,
                   chunks, playback, rtmpSession>>


(* ------------------------- chunk stream steps -------------------------- *)
\* the connection writes message m: a type-0 header, then ChunkHandler.send;
\* the bytes are handed to a reader with the same chunk size
WriteMessage(m) ==
    /\ peer.err = ""
    /\ chunkHandler.socketr = <<>>
    /\ peer.n < ChunkMsgs
    /\ chunkHandler' =
         [chunkHandler EXCEPT
            !.socketr = send(Type0Header(m), m.payload, chunkHandler.outChunkSize)]
    /\ peer' = [peer EXCEPT !.sent = m, !.received = NoMessage, !.n = @ + 1,
                            !.mixed = <<>>, !.delivered = <<>>]
    /\ UNCHANGED <<sessions, playback, rtmpSession>>

\* the header of the first chunk of a message the peer starts with a chunk
\* of type fmt and timestamp field t
ChunkHeaderBytes(fmt, m, t) ==
    CASE fmt = ChunkType0 -> Type0Header([m EXCEPT !.timestamp = t])
      [] fmt = ChunkType1 ->
           BasicHeader(fmt, m.csid) \o TimestampField(t)
               \o BigEndianBytes(Len(m.payload), 3) \o <<m.type>> \o ExtendedField(t)
      [] fmt = ChunkType2 ->
           BasicHeader(fmt, m.csid) \o TimestampField(t) \o ExtendedField(t)
      [] fmt = ChunkType3 -> BasicHeader(fmt, m.csid)

\* the peer writes a message on chunk stream csid, starting it with a
\* chunk of type fmt: t is the absolute timestamp (type 0) or the delta
\* (types 1 and 2); a type-3 message repeats the delta of the message
\* before it, and types 2 and 3 its length
PeerWrites(fmt, csid, t, p) ==
    /\ peer.err = ""
    /\ chunkHandler.socketr = <<>>
    /\ peer.n < ChunkMsgs
    /\ fmt # ChunkType0 => csid \in DOMAIN peer.clock
    /\ fmt \in {ChunkType2, ChunkType3} => Len(p) = peer.length[csid]
    /\ fmt = ChunkType3 => t = peer.delta[csid] /\ t < ExtendedTimestampMark
    /\ LET now == IF fmt = ChunkType0 THEN t ELSE peer.clock[csid] + t
           m == Message(csid, StreamOn(csid), now, TypeOn(csid), p)
       IN /\ chunkHandler' =
               [chunkHandler EXCEPT
                  !.socketr = send(ChunkHeaderBytes(fmt, m, t), p,
                                   chunkHandler.inChunkSize)]
          /\ peer' = [peer EXCEPT
                        !.sent = m, !.received = NoMessage, !.n = @ + 1,
                        !.mixed = <<>>, !.delivered = <<>>,
                        !.clock = Remember(@, csid, now),
                        !.delta = Remember(@, csid, t),
                        !.length = Remember(@, csid, Len(p))]
    /\ UNCHANGED <<sessions, playback, rtmpSession>>

\* the peer starts a message with a chunk of type 1, 2 or 3 on a chunk
\* stream on which it has sent nothing, so that the reader has no header
\* stored for it
PeerWritesUnopened(fmt, csid, t, p) ==
    /\ peer.err = ""
    /\ chunkHandler.socketr = <<>>
    /\ peer.n < ChunkMsgs
    /\ fmt # ChunkType0
    /\ csid \notin DOMAIN peer.clock
    /\ csid \notin DOMAIN chunkHandler.prevChunkHeader
    /\ LET m == Message(csid, StreamOn(csid), t, TypeOn(csid), p)
       IN /\ chunkHandler' =
               [chunkHandler EXCEPT
                  !.socketr = send(ChunkHeaderBytes(fmt, m, t), p,
                                   chunkHandler.inChunkSize)]
          /\ peer' = [peer EXCEPT
                        !.sent = m, !.received = NoMessage, !.n = @ + 1,
                        !.mixed = <<>>, !.delivered = <<>>]
    /\ UNCHANGED <<sessions, playback, rtmpSession>>

\* readBasicHeader on the bytes of the connection
ReadsBasicHeader ==
    /\ peer.bytes # <<>>
    /\ peer.reads = 0
    /\ LET r == readBasicHeader(ZeroHeader, chunkHandler.socketr)
       IN /\ chunkHandler' = [chunkHandler EXCEPT !.socketr = r.rest]
          /\ peer' = [peer EXCEPT !.err = r.err, !.reads = 1, !.header = r.header]
    /\ UNCHANGED <<sessions, playback, rtmpSession>>

\* the message a read returned
MessageOf(r) ==
    Message(r.header.ChunkStreamID, r.header.MessageStreamID,
            r.header.ElapsedTime, r.header.MessageTypeID, r.payload)

\* the history once a read has returned r
AfterRead(p, r) ==
    [p EXCEPT !.err = r.err,
              !.reads = @ + 1,
              !.received = IF r.err # "" THEN NoMessage ELSE MessageOf(r),
              !.delivered = IF r.err # "" THEN @ ELSE Append(@, MessageOf(r)),
              !.header = IF r.err # "" THEN ZeroHeader ELSE r.header]

\* the chunks of message a with the one chunk of message b after the first
\* of them
Interleaved(a, b, chunkSize) ==
    LET written == send(Type0Header(a), a.payload, chunkSize)
        first == Len(Type0Header(a)) + chunkSize
    IN Take(written, first)
         \o send(Type0Header(b), b.payload, chunkSize)
         \o Drop(written, first)

\* the peer writes message a in several chunks and message b, on another
\* chunk stream and in one chunk, between the first two chunks of a
PeerInterleaves(a, b) ==
    /\ peer.err = ""
    /\ chunkHandler.socketr = <<>>
    /\ peer.n < ChunkMsgs
    /\ a.csid # b.csid
    /\ Len(a.payload) > chunkHandler.inChunkSize
    /\ Len(b.payload) \in 1..chunkHandler.inChunkSize
    /\ chunkHandler' =
         [chunkHandler EXCEPT
            !.socketr = Interleaved(a, b, chunkHandler.inChunkSize)]
    /\ peer' = [peer EXCEPT !.sent = a, !.received = NoMessage, !.n = @ + 1,
                            !.mixed = <<a, b>>, !.delivered = <<>>]
    /\ UNCHANGED <<sessions, playback, rtmpSession>>

\* nextMessage: ReadChunkHeader, then ReadChunkData
Delivers(r) ==
    /\ chunkHandler' = [chunkHandler EXCEPT !.socketr = r.rest,
                                            !.prevChunkHeader = r.prev]
    /\ peer' = AfterRead(peer, r)

nextMessage ==
    /\ peer.err = ""
    /\ chunkHandler.socketr # <<>>
    /\ Delivers(ReadMessage(chunkHandler.socketr, chunkHandler.prevChunkHeader,
                            chunkHandler.inChunkSize))
    /\ UNCHANGED <<sessions, playback, rtmpSession>>

(* ------------------ reading a message, round by round ----------------- *)
\* the chunk stream and the messages of SpecAssemble
AssembleCsid == 3
AssembleMessages ==
    {Message(AssembleCsid, DefaultPublishStream + 1, 0, VideoType, p) : p \in Payloads}

\* a Set-Chunk-Size of value v arrives between two messages
PeerSetsChunkSize(v) ==
    /\ peer.err = ""
    /\ peer.assembling.pc = "idle"
    /\ chunkHandler.socketr = <<>>
    /\ peer.assembling.sets < AssembleMsgs
    /\ chunkHandler' = SetChunkSize(chunkHandler, Low31(v))
    /\ peer' = [peer EXCEPT !.assembling.sets = @ + 1]
    /\ UNCHANGED <<sessions, playback, rtmpSession>>

\* the peer sends message m in chunks of the size it announced; cut into
\* chunks of no bytes, the message is its type-0 header followed by type-3
\* headers without end
PeerSends(m) ==
    /\ peer.err = ""
    /\ peer.assembling.pc = "idle"
    /\ chunkHandler.socketr = <<>>
    /\ peer.assembling.msgs < AssembleMsgs
    /\ chunkHandler' =
         [chunkHandler EXCEPT
            !.socketr = IF chunkHandler.inChunkSize = 0 THEN Type0Header(m)
                        ELSE send(Type0Header(m), m.payload,
                                  chunkHandler.inChunkSize)]
    /\ peer' = [peer EXCEPT !.sent = m, !.received = NoMessage,
                            !.assembling.msgs = @ + 1]
    /\ UNCHANGED <<sessions, playback, rtmpSession>>

\* the next type-3 header of a message cut into chunks of no bytes
PeerFeeds ==
    /\ peer.assembling.pc = "loop"
    /\ chunkHandler.inChunkSize = 0
    /\ chunkHandler.socketr = <<>>
    /\ peer.assembling.fed < AssembleFeeds
    /\ chunkHandler' =
         [chunkHandler EXCEPT !.socketr = BasicHeader(ChunkType3, peer.sent.csid)]
    /\ peer' = [peer EXCEPT !.assembling.fed = @ + 1]
    /\ UNCHANGED <<sessions, playback, rtmpSession>>

\* ReadChunkData returns d for the message whose first header is header,
\* after headers chunk headers
Returned(header, d, headers) ==
    /\ chunkHandler' = [chunkHandler EXCEPT !.socketr = d.rest,
                                            !.prevChunkHeader = d.prev]
    /\ peer' = [AfterRead(peer, MessageRead(header, d)) EXCEPT
                  !.assembling.pc = "idle",
                  !.assembling.payload = <<>>,
                  !.assembling.headers = headers]

\* ReadChunkData enters the loop of assembleMessage with the first
\* inChunkSize bytes in d, or goes on with it
Assembling(header, d, headers) ==
    /\ chunkHandler' = [chunkHandler EXCEPT !.socketr = d.rest,
                                            !.prevChunkHeader = d.prev]
    /\ peer' = [peer EXCEPT !.header = header,
                            !.assembling.pc = "loop",
                            !.assembling.payload = d.payload,
                            !.assembling.headers = headers]

\* nextMessage up to the loop of assembleMessage: ReadChunkHeader, then
\* ReadChunkData, which returns the payload of a message within one chunk
\* and otherwise reads the first inChunkSize bytes
ReadsFirstChunk ==
    /\ peer.err = ""
    /\ peer.assembling.pc = "idle"
    /\ chunkHandler.socketr # <<>>
    /\ LET h == ReadChunkHeader(chunkHandler.socketr, chunkHandler.prevChunkHeader)
           n == chunkHandler.inChunkSize
       IN IF h.err # ""
          THEN Returned(h.header, DataRead(h.err, <<>>, h.rest, h.prev), 1)
          ELSE IF h.header.MessageLength > n /\ Len(h.rest) >= n
          THEN Assembling(h.header,
                          DataRead("", Take(h.rest, n), Drop(h.rest, n), h.prev), 1)
          ELSE Returned(h.header, ReadChunkData(h.header, h.rest, h.prev, n), 1)
    /\ UNCHANGED <<sessions, playback, rtmpSession>>

\* one round of the loop of assembleMessage, which waits for the bytes of
\* the next chunk
AssembleRound ==
    /\ peer.assembling.pc = "loop"
    /\ Len(peer.assembling.payload) < peer.header.MessageLength
    /\ chunkHandler.socketr # <<>>
    /\ LET r == assembleRound(DataRead("", peer.assembling.payload,
                                       chunkHandler.socketr,
                                       chunkHandler.prevChunkHeader),
                              peer.header.MessageLength, chunkHandler.inChunkSize)
       IN IF r.err # ""
          THEN Returned(peer.header, r, peer.assembling.headers + 1)
          ELSE Assembling(peer.header, r, peer.assembling.headers + 1)
    /\ UNCHANGED <<sessions, playback, rtmpSession>>

\* the loop of assembleMessage ends: bytesRead has reached messageLength
AssembleReturns ==
    /\ peer.assembling.pc = "loop"
    /\ ~(Len(peer.assembling.payload) < peer.header.MessageLength)
    /\ Returned(peer.header,
                DataRead("", peer.assembling.payload, chunkHandler.socketr,
                         chunkHandler.prevChunkHeader),
                peer.assembling.headers)
    /\ UNCHANGED <<sessions, playback, rtmpSession>>

(* ----------------------- rtmp/session.go: steps ------------------------ *)
\* Handshake: readC0C1 reads into c0c1 [1537]byte and keeps c0c1[1:] as c1
readC0C1 ==
    /\ rtmpSession.pc = "readC0C1"
    /\ rtmpSession.socketr # <<>> \/ rtmpSession.closed
    /\ LET c0c1 == read(rtmpSession.socketr, 1 + HandshakeSize)
           r == Logged([rtmpSession EXCEPT !.socketr = c0c1.rest], "readC0C1",
                       c0c1.k)
       IN rtmpSession' =
            IF c0c1.err # "" THEN Returns(r, c0c1.err)
            ELSE [r EXCEPT !.pc = "sendS0S1S2", !.c1 = Tail(c0c1.bytes)]
    /\ UNCHANGED <<sessions, chunks, playback>>

\* generateS1 leaves the first 8 bytes of S1 zero and fills the others
\* with random bytes
generateS1(fill) == Zeros(8) \o [i \in 1..(HandshakeSize - 8) |-> fill]

\* generateS2: copy(s2, session.c1)
generateS2(c1) == Take(c1, Min(Len(c1), HandshakeSize))
                      \o Zeros(HandshakeSize - Min(Len(c1), HandshakeSize))

\* Handshake: sendS0S1S2 writes S0, S1 and S2 in one send, which fails when
\* the connection is broken
sendS0S1S2 ==
    /\ rtmpSession.pc = "sendS0S1S2"
    /\ \E fill \in RandomBytes, ok \in BOOLEAN :
         LET s1 == generateS1(fill)
             s0s1s2 == <<RtmpVersion3>> \o s1 \o generateS2(rtmpSession.c1)
         IN rtmpSession' =
              IF ok
              THEN Logged([rtmpSession EXCEPT !.pc = "readC2", !.s1 = s1,
                                              !.out = @ \o s0s1s2],
                          "sendS0S1S2", 0)
              ELSE Returns([rtmpSession EXCEPT !.s1 = s1], "write")
    /\ UNCHANGED <<sessions, chunks, playback>>

\* Handshake: readC2 reads into c2 [1536]byte; Run then enters its loop
readC2 ==
    /\ rtmpSession.pc = "readC2"
    /\ rtmpSession.socketr # <<>> \/ rtmpSession.closed
    /\ LET c2 == read(rtmpSession.socketr, HandshakeSize)
           r == Logged([rtmpSession EXCEPT !.socketr = c2.rest], "readC2", c2.k)
       IN rtmpSession' =
            IF c2.err # "" THEN Returns(r, c2.err)
            ELSE [r EXCEPT !.pc = "loop"]
    /\ UNCHANGED <<sessions, chunks, playback>>

\* Run: for { nextMessage() } reads the basic header of a chunk; at the end
\* of the stream Run returns nil
RunNextMessage ==
    /\ rtmpSession.pc = "loop"
    /\ rtmpSession.socketr # <<>> \/ rtmpSession.closed
    /\ LET b == read(rtmpSession.socketr, 1)
           r == Logged([rtmpSession EXCEPT !.socketr = b.rest], "nextMessage", b.k)
       IN rtmpSession' =
            IF b.err # "" THEN Returns(r, "") ELSE [r EXCEPT !.pc = "chunks"]
    /\ UNCHANGED <<sessions, chunks, playback>>

\* n bytes the client has written reach the server's socket: the whole of
\* what it wrote, or one full segment
Arrives ==
    /\ rtmpSession.pc \notin {"idle", "closed", "chunks"}
    /\ \E n \in {SegmentSize, Len(rtmpSession.unsent)} :
         /\ 1 <= n /\ n <= Len(rtmpSession.unsent)
         /\ rtmpSession' =
              [rtmpSession EXCEPT !.socketr = @ \o Take(rtmpSession.unsent, n),
                                  !.unsent = Drop(@, n)]
    /\ UNCHANGED <<sessions, chunks, playback>>

\* the client has received S0, S1 and S2: it writes C2, the S1 it got,
\* and its first chunk
ClientAnswers ==
    /\ rtmpSession.pc \notin {"idle", "closed"}
    /\ ~rtmpSession.answered
    /\ ~rtmpSession.closed
    /\ Len(rtmpSession.out) = 1 + 2 * HandshakeSize
    /\ rtmpSession' = [rtmpSession EXCEPT
                         !.answered = TRUE,
                         !.unsent = @ \o SubSeq(rtmpSession.out, 2, 1 + HandshakeSize)
                                      \o FirstChunk]
    /\ UNCHANGED <<sessions, chunks, playback>>

\* the client closes the connection after the last byte it wrote
ClientCloses ==
    /\ rtmpSession.pc \notin {"idle", "closed", "chunks"}
    /\ ~rtmpSession.closed
    /\ rtmpSession.unsent = <<>>
    /\ rtmpSession' = [rtmpSession EXCEPT !.closed = TRUE]
    /\ UNCHANGED <<sessions, chunks, playback>>

(* ------------------------ protocol control steps ----------------------- *)
\* the history once the chunk handler has become h on control message c and
\* read bytes more bytes
Handled(p, c, h, bytes) ==
    [p EXCEPT !.control = c,
              !.n = @ + 1,
              !.unacked = IF Len(h.socketw) > Len(chunkHandler.socketw)
                             /\ h.socketw[Len(h.socketw)].type = "Ack"
                          THEN 0 ELSE @ + bytes]

HandlesControl(c, h, bytes) ==
    /\ chunkHandler' = h
    /\ peer' = Handled(peer, c, h, bytes)
    /\ UNCHANGED <<sessions, playback, rtmpSession>>

\* a Set-Chunk-Size of value v arrives: onSetChunkSize(size) with the
\* 31-bit value
onSetChunkSize(v) ==
    /\ peer.n < ControlMsgs
    /\ HandlesControl(Control("SetChunkSize", v.top, v.low),
                      SetChunkSize(chunkHandler, Low31(v)), 0)

\* the session announces a chunk size
SendsSetChunkSize(size) ==
    /\ peer.n < ControlMsgs
    /\ HandlesControl(Control("sendSetChunkSize", size, 0),
                      sendSetChunkSize(chunkHandler, size), 0)

\* a Window-Ack-Size arrives: onSetWindowAckSize(windowAckSize)
onSetWindowAckSize(windowAckSize) ==
    /\ peer.n < ControlMsgs
    /\ HandlesControl(Control("WindowAckSize", windowAckSize, 0),
                      SetWindowAckSize(chunkHandler, windowAckSize), 0)

\* a Set-Peer-Bandwidth arrives: onSetBandwidth(windowAckSize, limitType)
onSetBandwidth(windowAckSize, limitType) ==
    /\ peer.n < ControlMsgs
    /\ HandlesControl(Control("SetPeerBandwidth", windowAckSize, limitType),
                      SetBandwidth(chunkHandler, windowAckSize, limitType), 0)

\* an Acknowledgement arrives: onAck(sequenceNumber) is empty
onAck(sequenceNumber) ==
    /\ peer.n < ControlMsgs
    /\ HandlesControl(Control("Ack", sequenceNumber, 0), chunkHandler, 0)

\* readBasicHeader of a basic header of basic bytes: the three-byte form
\* adds 2 to bytesReceived
afterBasicHeaderBytes(h, basic) ==
    IF basic = 3 THEN [h EXCEPT !.bytesReceived = @ + 2] ELSE h

\* a chunk of basic + rest bytes is read and its bytes are reported with
\* updateBytesReceived
ReadsChunk(basic, rest) ==
    /\ peer.n < ControlMsgs
    /\ HandlesControl(Control("Chunk", basic, rest),
                      updateBytesReceived(afterBasicHeaderBytes(chunkHandler, basic),
                                          basic + rest),
                      basic + rest)

(* --------------------- session.go: client mode ------------------------- *)
\* StartPlayback up to its loop: InitializeClient (the handshake), then
\* sendSetChunkSize and requestConnect; an error of the handshake or of
\* requestConnect is returned
StartPlayback ==
    /\ playback.pc = "start"
    /\ \E handshake \in BOOLEAN, connect \in BOOLEAN :
         playback' =
            IF ~handshake THEN [playback EXCEPT !.pc = "done", !.err = "handshake"]
            ELSE IF ~connect
            THEN [playback EXCEPT !.pc = "done", !.err = "connect",
                                  !.out = <<SetChunkSizeRequest>>]
            ELSE [playback EXCEPT !.pc = "read",
                                  !.out = <<SetChunkSizeRequest, ConnectRequest>>]
    /\ UNCHANGED <<sessions, chunks, rtmpSession>>

\* the loop of StartPlayback reads a message while the session is active
Receives(p, m) ==
    [p EXCEPT !.last = m, !.n = @ + 1]

CanReceive ==
    /\ playback.pc = "read"
    /\ playback.active
    /\ playback.n < PlaybackMsgs

\* onResult with a code for which every level but "error" sends createStream
onResultAnyCode(info) ==
    /\ CanReceive
    /\ playback' =
         LET p == Receives(playback, Received("_result", info))
         IN IF info.level = NoField \/ info.code = NoField THEN p
            ELSE IF info.level = "error" THEN [p EXCEPT !.active = FALSE]
            ELSE [p EXCEPT !.out = Append(@, CreateStreamRequest)]
    /\ UNCHANGED <<sessions, chunks, rtmpSession>>

\* a _result arrives: onResult(info)
onResult(info) ==
    /\ CanReceive
    /\ playback' =
         LET p == Receives(playback, Received("_result", info))
         IN IF info.level = NoField \/ info.code = NoField THEN p
            ELSE IF info.level = "error" THEN [p EXCEPT !.active = FALSE]
            ELSE IF info.code = "NetConnection.Connect.Success"
            THEN [p EXCEPT !.out = Append(@, CreateStreamRequest)]
            ELSE p
    /\ UNCHANGED <<sessions, chunks, rtmpSession>>

\* a User-Control StreamBegin arrives: onStreamBegin()
onStreamBegin ==
    /\ CanReceive
    /\ playback' =
         [Receives(playback, Received("StreamBegin", Info(NoField, NoField)))
            EXCEPT !.out = Append(@, PlayRequest(playback.streamKey))]
    /\ UNCHANGED <<sessions, chunks, rtmpSession>>

\* an onStatus arrives: onStatus(info) looks up the level and returns
onStatus(info) ==
    /\ CanReceive
    /\ playback' = Receives(playback, Received("onStatus", info))
    /\ UNCHANGED <<sessions, chunks, rtmpSession>>

\* nextMessage returns an error, which StartPlayback returns
PlaybackError ==
    /\ playback.pc = "read"
    /\ playback.active
    /\ playback' = [playback EXCEPT !.pc = "done", !.err = "read",
                                    !.last = NothingReceived]
    /\ UNCHANGED <<sessions, chunks, rtmpSession>>

\* the session is no longer active: StartPlayback returns nil
PlaybackExit ==
    /\ playback.pc = "read"
    /\ ~playback.active
    /\ playback' = [playback EXCEPT !.pc = "done", !.last = NothingReceived]
    /\ UNCHANGED <<sessions, chunks, rtmpSession>>

(* -------------------------------- Next --------------------------------- *)
Next ==
    \E s \in Sessions :
        \/ Handshake(s)
        \/ ReadError(s)
        \/ LoopExit(s)
        \/ CleanupSubscriber(s)
        \/ CleanupEndOfStream(s)
        \/ CleanupDestroyPublisher(s)
        \/ onPublish(s)
        \/ onPlay(s)
        \/ onPlayAvc(s)
        \/ onPlayAac(s)
        \/ onPlayRegister(s)
        \/ onAudioMessage(s)
        \/ onVideoMessage(s)

Spec == Init /\ [][Next]_vars

NextConnect ==
    \E s \in Sessions :
        \/ Handshake(s)
        \/ ReadError(s)
        \/ LoopExit(s)
        \/ CleanupSubscriber(s)
        \/ CleanupEndOfStream(s)
        \/ CleanupDestroyPublisher(s)
        \/ onConnect(s)
        \/ onPublish(s)
        \/ onPlay(s)
        \/ onPlayAvc(s)
        \/ onPlayAac(s)
        \/ onPlayRegister(s)

SpecConnect == InitConnect /\ [][NextConnect]_vars

NextMixed ==
    \E s \in Sessions :
        \/ Handshake(s)
        \/ ReadError(s)
        \/ CleanupSubscriber(s)
        \/ CleanupEndOfStream(s)
        \/ CleanupDestroyPublisher(s)
        \/ onPublish(s)
        \/ onPlay(s)
        \/ onPlayAvc(s)
        \/ onPlayAac(s)
        \/ onPlayRegister(s)
        \/ onAudioMessage(s)
        \/ onVideoMessage(s)
        \/ onMetadata(s)

SpecMixed == InitMixed /\ [][NextMixed]_vars

NextPlay ==
    \E s \in Sessions :
        \/ Handshake(s)
        \/ ReadError(s)
        \/ CleanupSubscriber(s)
        \/ CleanupEndOfStream(s)
        \/ CleanupDestroyPublisher(s)
        \/ onPublish(s)
        \/ onPlay(s)
        \/ onPlayAvc(s)
        \/ onPlayAac(s)
        \/ onPlayRegister(s)
        \/ onAudioMessage(s)
        \/ onVideoMessage(s)

SpecPlay == InitPlay /\ [][NextPlay]_vars

NextCmd ==
    \E s \in Sessions :
        \/ Handshake(s)
        \/ ReadError(s)
        \/ LoopExit(s)
        \/ CleanupSubscriber(s)
        \/ CleanupEndOfStream(s)
        \/ CleanupDestroyPublisher(s)
        \/ onPublish(s)
        \/ onPlay(s)
        \/ onPlayAvc(s)
        \/ onPlayAac(s)
        \/ onPlayRegister(s)

SpecCmd == InitCmd /\ [][NextCmd]_vars

NextWriter ==
    \E s \in Sessions :
        \/ Handshake(s)
        \/ onPublish(s)
        \/ onPlay(s)
        \/ onPlayAvc(s)
        \/ onPlayAac(s)
        \/ onPlayRegister(s)
        \/ ReadsFrame(s)
        \/ \E t \in Sessions : SendWrite(s, t)
        \/ \E t \in Sessions : SendFlush(s, t)
        \/ FanOutDone(s)
        \/ AckWrite(s)
        \/ AckFlush(s)
        \/ Stall(s)

SpecWriter == InitWriter /\ [][NextWriter]_vars

\* what the goroutine of connection s does next without waiting for its
\* peer: the Go scheduler runs it if it can run
Progress(s) ==
    \/ \E t \in Sessions : SendWrite(s, t)
    \/ \E t \in Sessions : SendFlush(s, t)
    \/ FanOutDone(s)
    \/ AckFlush(s)
    \/ onPlayAvc(s)
    \/ onPlayAac(s)
    \/ onPlayRegister(s)

FairWriter == SpecWriter /\ \A s \in Sessions : WF_vars(Progress(s))

\* a connection that writes messages and reads them back
NextChunk ==
    \/ \E m \in Messages : WriteMessage(m)
    \/ nextMessage

SpecChunk == InitChunk /\ [][NextChunk]_vars

\* a connection that reads the messages its peer writes
NextElapsed ==
    \/ \E fmt \in {ChunkType0, ChunkType1, ChunkType2, ChunkType3},
          csid \in ElapsedCsids, t \in ElapsedTimestamps, p \in Payloads :
            PeerWrites(fmt, csid, t, p)
    \/ nextMessage

SpecElapsed == InitChunk /\ [][NextElapsed]_vars

\* a connection whose peer also starts messages on chunk streams it never
\* opened with a type-0 chunk
NextUnopened ==
    \/ \E fmt \in {ChunkType0, ChunkType1, ChunkType2, ChunkType3},
          csid \in ElapsedCsids, t \in ElapsedTimestamps, p \in Payloads :
            PeerWrites(fmt, csid, t, p)
    \/ \E fmt \in {ChunkType1, ChunkType2, ChunkType3},
          csid \in ElapsedCsids, t \in ElapsedTimestamps, p \in Payloads :
            PeerWritesUnopened(fmt, csid, t, p)
    \/ nextMessage

SpecUnopened == InitChunk /\ [][NextUnopened]_vars

\* a connection whose reads go round by round through assembleMessage
NextAssemble ==
    \/ \E v \in SetChunkSizeValues : PeerSetsChunkSize(v)
    \/ \E m \in AssembleMessages : PeerSends(m)
    \/ PeerFeeds
    \/ ReadsFirstChunk
    \/ AssembleRound
    \/ AssembleReturns

SpecAssemble == InitControl /\ [][NextAssemble]_vars

\* a connection that reads back the messages it writes, chunk by chunk
NextSplit ==
    \/ \E m \in SplitMessages : WriteMessage(m)
    \/ nextMessage

SpecSplit == InitChunk /\ [][NextSplit]_vars

\* a connection that handles protocol control messages and counts the
\* bytes it reads
NextControl ==
    \/ \E v \in SetChunkSizeValues : onSetChunkSize(v)
    \/ \E size \in SentChunkSizes : SendsSetChunkSize(size)
    \/ \E size \in WindowSizes : onSetWindowAckSize(size)
    \/ \E size \in WindowSizes, limitType \in LimitTypes :
         onSetBandwidth(size, limitType)
    \/ \E n \in WindowSizes : onAck(n)
    \/ \E basic \in 1..3, rest \in ChunkRest : ReadsChunk(basic, rest)

SpecControl == InitControl /\ [][NextControl]_vars

\* the basic header of a chunk is read
NextBasic == ReadsBasicHeader

SpecBasic == InitBasic /\ [][NextBasic]_vars

\* a connection whose peer interleaves the chunks of two messages
InterleavedMessages ==
    {Message(c, DefaultPublishStream + 1, 0, VideoType, p) :
        c \in ElapsedCsids, p \in Payloads}

NextInterleave ==
    \/ \E a \in InterleavedMessages, b \in InterleavedMessages :
         PeerInterleaves(a, b)
    \/ nextMessage

SpecInterleave == InitChunk /\ [][NextInterleave]_vars

\* Run of a session of package rtmp/
NextHandshake ==
    \/ readC0C1
    \/ sendS0S1S2
    \/ readC2
    \/ RunNextMessage
    \/ Arrives
    \/ ClientAnswers
    \/ ClientCloses

SpecHandshake == InitHandshake /\ [][NextHandshake]_vars

\* a session in client mode
InitPlayback ==
    /\ NoSessions
    /\ chunkHandler = NewChunkHandler(MaxChunkSize)
    /\ peer = NoPeer
    /\ playback \in {NewPlayback(k) : k \in 1..PlaybackKeys}
    /\ rtmpSession = IdleSession

NextPlayback ==
    \/ StartPlayback
    \/ \E info \in InfoObjects : onResult(info)
    \/ onStreamBegin
    \/ \E info \in InfoObjects : onStatus(info)
    \/ PlaybackError
    \/ PlaybackExit

SpecPlayback == InitPlayback /\ [][NextPlayback]_vars

(* ------------------------ vocabulary of the claims --------------------- *)
\* the step is session s handling a message of kind cmd that it just read
Handles(s, cmd) ==
    /\ counters' # counters
    /\ last'.sess = s
    /\ last'.msg.cmd = cmd

\* the step moves session s from position a to position b
Moves(s, a, b) == pc[s] = a /\ pc'[s] = b

\* session s is between its handshake and the end of its cleanup
Live(s) == pc[s] \notin {"handshake", "done"}

\* key k has an entry that a live session other than s registered
HeldByOther(s, k) ==
    /\ StreamExists(context, k)
    /\ holder[k] # s
    /\ pc[holder[k]] # "done"

\* a live session other than s is a publisher of key k
PublishedByOther(s, k) ==
    \E t \in Sessions \ {s} : Live(t) /\ isPublisher[t] /\ streamKey[t] = k

\* the last message of a non-empty sequence
Last(seq) == seq[Len(seq)]

\* the position of the last msg in seq, 0 if there is none
LastIndexOf(seq, msg) ==
    LET idx == {i \in 1..Len(seq) : seq[i] = msg}
    IN IF idx = {} THEN 0 ELSE CHOOSE i \in idx : \A j \in idx : j <= i

\* what the context store holds about key k
Entry(c, k) == <<k \in c.streams, c.subs[k], c.avc[k], c.aac[k]>>

(* ---------------------------------- C1 --------------------------------- *)
\* C1: for every stream key, at most one session that has not terminated
\* is a publisher of it (a publish for a key that is held must not make the
\* issuing session a publisher of that key).
C1_OnePublisherPerKey ==
    \A k \in Keys :
        Cardinality({s \in Sessions :
                        pc[s] # "done" /\ isPublisher[s] /\ streamKey[s] = k}) <= 1

(* ---------------------------------- C2 --------------------------------- *)
\* C2: a publish for a key that another live session publishes is answered
\* with an error-level onStatus and nothing else, and leaves the issuing
\* session inactive.
C2_DuplicatePublishRejected ==
    [][\A s \in Sessions :
          (Handles(s, "publish") /\ PublishedByOther(s, last'.msg.key))
          => /\ Len(outbox'[s]) = Len(outbox[s]) + 1
             /\ Last(outbox'[s]).type = "onStatus"
             /\ Last(outbox'[s]).level = "error"
             /\ ~active'[s]]_vars

(* ---------------------------------- C3 --------------------------------- *)
\* C3: neither the publish of a session for a key k that another live
\* session holds nor a step of that session's cleanup changes k's entry
\* (publisher, subscribers, cached sequence headers) or sends anything to
\* k's subscribers; so the entry is there as long as its holder is live
\* and the holder's frames keep reaching the subscribers.
C3_SecondPublisherHarmless ==
    [][\A s \in Sessions : \A k \in Keys :
          ( /\ HeldByOther(s, k)
            /\ \/ Handles(s, "publish") /\ last'.msg.key = k
               \/ /\ isPublisher[s] /\ streamKey[s] = k
                  /\ pc[s] \in {"cleanup", "eos", "destroy"}
                  /\ pc'[s] # pc[s] )
          => /\ Entry(context', k) = Entry(context, k)
             /\ \A t \in context.subs[k] : outbox'[t] = outbox[t]]_vars

(* ---------------------------------- C4 --------------------------------- *)
\* C4: when a session ends after its handshake, every key whose entry it
\* registered has its entry removed (so that a later publish registers),
\* and every session subscribed to such a key has been sent
\* NetStream.Play.Stop since it was sent NetStream.Play.Start.
C4_PublisherEndCleansUp ==
    [][\A s \in Sessions : \A k \in Keys :
          (Live(s) /\ pc'[s] = "done" /\ holder[k] = s)
          => /\ ~StreamExists(context', k)
             /\ \A t \in context.subs[k] :
                   LastIndexOf(outbox'[t], PlayStop)
                       > LastIndexOf(outbox'[t], PlayStart(k))]_vars

(* ---------------------------------- C5 --------------------------------- *)
\* C5: every subscriber that DestroyPublisher(k) drops in a publisher's
\* cleanup has been sent NetStream.Play.Stop since it was sent
\* NetStream.Play.Start for k, whatever another session does between
\* BroadcastEndOfStream(k) and DestroyPublisher(k).
C5_NoSubscriberDroppedUnnotified ==
    [][\A s \in Sessions :
          Moves(s, "destroy", "done")
          => \A t \in GetSubscribersForStream(context, streamKey[s]) :
                LastIndexOf(outbox[t], PlayStop)
                    > LastIndexOf(outbox[t], PlayStart(streamKey[s]))]_vars

(* ---------------------------------- C6 --------------------------------- *)
\* C6: a session that has terminated is in no key's subscriber set, and no
\* entry that it registered remains.
C6_TerminatedSessionUnregistered ==
    \A s \in Sessions :
        pc[s] = "done"
        => \A k \in Keys : s \notin context.subs[k] /\ holder[k] # s

(* ---------------------------------- C7 --------------------------------- *)
\* C7: every session is in the subscriber set of at most one stream key.
C7_SubscribedToOneKey ==
    \A s \in Sessions :
        Cardinality({k \in Keys : s \in context.subs[k]}) <= 1

(* ---------------------------------- C8 --------------------------------- *)
\* the messages that a step appends to the outbox of session s
Sent(s) == SubSeq(outbox'[s], Len(outbox[s]) + 1, Len(outbox'[s]))

\* C8: handling a connect that names the server's app sends the session
\* exactly five messages, in this order: Window-Ack-Size, Set-Peer-Bandwidth
\* with limit dynamic, StreamBegin(0), Set-Chunk-Size with the configured
\* size, _result NetConnection.Connect.Success; nothing already sent is
\* changed, nothing is sent to another session, the session stays active.
C8_ConnectSequenceInOrder ==
    [][\A s \in Sessions :
          (Handles(s, "connect") /\ last'.msg.app = ServerApp)
          => /\ Len(outbox'[s]) = Len(outbox[s]) + 5
             /\ SubSeq(outbox'[s], 1, Len(outbox[s])) = outbox[s]
             /\ Sent(s)[1].type = "WindowAckSize"
             /\ Sent(s)[1].n = 2500000
             /\ Sent(s)[2].type = "SetPeerBandwidth"
             /\ Sent(s)[2].n = 2500000
             /\ Sent(s)[2].limit = 2
             /\ Sent(s)[3].type = "StreamBegin"
             /\ Sent(s)[3].n = 0
             /\ Sent(s)[4].type = "SetChunkSize"
             /\ Sent(s)[4].n = 4096
             /\ Sent(s)[5].type = "_result"
             /\ Sent(s)[5].code = "NetConnection.Connect.Success"
             /\ \A t \in Sessions \ {s} : outbox'[t] = outbox[t]
             /\ active'[s]]_vars

\* a session has just been answered with the connect sequence and is active
C8_Witness ==
    \E s \in Sessions :
        /\ last.sess = s /\ last.msg.cmd = "connect" /\ last.msg.app = ServerApp
        /\ Len(outbox[s]) >= 5
        /\ Last(outbox[s]).code = "NetConnection.Connect.Success"
        /\ active[s] /\ pc[s] = "read"

(* ---------------------------------- C9 --------------------------------- *)
\* s is registered with the broadcaster for key k
Registered(c, h, s, k) == s \in c.subs[k] \/ (k \in c.streams /\ h[k] = s)

\* C9: handling a connect that names another app sends nothing to anybody,
\* marks the session inactive and registers nothing; an inactive session
\* handles no further message, is sent nothing by its own task, is never
\* marked publisher or player nor newly registered, stays inactive, and the
\* only step it takes from its message loop is the exit to its cleanup.
C9_WrongAppCloses ==
    [][\A s \in Sessions :
          /\ (Handles(s, "connect") /\ last'.msg.app # ServerApp)
             => /\ outbox' = outbox
                /\ ~active'[s]
                /\ context' = context
                /\ isPublisher' = isPublisher
                /\ isPlayer' = isPlayer
          /\ ~active[s]
             => /\ ~(last'.sess = s /\ counters' # counters)
                /\ ~active'[s]
                /\ isPublisher'[s] = isPublisher[s]
                /\ isPlayer'[s] = isPlayer[s]
                /\ \A k \in Keys : Registered(context', holder', s, k)
                                   => Registered(context, holder, s, k)
                /\ (pc[s] = "read" /\ pc'[s] # "read") => pc'[s] = "cleanup"]_vars

\* a session whose only command was a connect for another app has ended:
\* nothing was sent to it and it is registered nowhere
C9_Witness ==
    \E s \in Sessions :
        /\ pc[s] = "done"
        /\ app[s] # "" /\ app[s] # ServerApp
        /\ ~active[s]
        /\ outbox[s] = <<>>
        /\ ~isPublisher[s] /\ ~isPlayer[s]
        /\ \A k \in Keys : ~Registered(context, holder, s, k)

(* ---------------------------------- C10 -------------------------------- *)
\* msg is a frame of key k that was broadcast when its publisher sent it
\* (the copies of the cached sequence headers carry timestamp 0)
LiveFrame(msg, k) ==
    msg.type \in {"audio", "video"} /\ msg.key = k /\ msg.ts # 0

\* C10: a play for a key that has an entry appends NetStream.Play.Start to
\* the player's outbox and registers nothing yet; the next step of onPlay
\* appends the cached AVC sequence header with timestamp 0 if there is one
\* and nothing otherwise; the next one does the same with the cached AAC
\* sequence header; only the last step registers the session, and sends
\* nothing.  A session gets into a subscriber set by that last step only; a
\* session that is not in k's subscriber set is sent no live frame of k;
\* and a live frame that is sent is the frame handled in that very step,
\* so frames received before the subscription are never replayed.
C10_PlayStartHeadersThenSubscribe ==
    [][\A s \in Sessions :
          /\ (Handles(s, "play") /\ StreamExists(context, last'.msg.key))
             => /\ outbox'[s] = Append(outbox[s], PlayStart(last'.msg.key))
                /\ context' = context
                /\ pc'[s] = "playAvc"
          /\ (pc[s] = "playAvc" /\ pc'[s] # "playAvc")
             => /\ pc'[s] = "playAac"
                /\ context' = context
                /\ outbox'[s] =
                     IF context.avc[streamKey[s]] # None
                     THEN Append(outbox[s],
                                 [type |-> "video", level |-> "", code |-> "",
                                  n |-> 0, limit |-> 0, key |-> streamKey[s],
                                  payload |-> context.avc[streamKey[s]],
                                  ts |-> 0])
                     ELSE outbox[s]
          /\ (pc[s] = "playAac" /\ pc'[s] # "playAac")
             => /\ pc'[s] = "playReg"
                /\ context' = context
                /\ outbox'[s] =
                     IF context.aac[streamKey[s]] # None
                     THEN Append(outbox[s],
                                 [type |-> "audio", level |-> "", code |-> "",
                                  n |-> 0, limit |-> 0, key |-> streamKey[s],
                                  payload |-> context.aac[streamKey[s]],
                                  ts |-> 0])
                     ELSE outbox[s]
          /\ (pc[s] = "playReg" /\ pc'[s] # "playReg")
             => /\ pc'[s] = "read"
                /\ outbox' = outbox
                /\ isPlayer'[s]
          /\ \A k \in Keys :
                /\ (s \in context'.subs[k] /\ s \notin context.subs[k])
                   => (pc[s] = "playReg" /\ streamKey[s] = k)
                /\ \A i \in (Len(outbox[s]) + 1)..Len(outbox'[s]) :
                      LiveFrame(outbox'[s][i], k)
                      => /\ s \in context.subs[k]
                         /\ outbox'[s][i].payload = PayloadOf(last'.msg)
                         /\ outbox'[s][i].ts = last'.msg.id
                         /\ counters' # counters]_vars

\* a player that subscribed after the publisher had sent its AVC sequence
\* header holds Play.Start, the cached header with timestamp 0 and then the
\* publisher's next frame; the header's own broadcast was not replayed
C10_Witness ==
    \E s \in Sessions : \E k \in Keys :
        /\ s \in context.subs[k]
        /\ pc[s] = "read"
        /\ Len(outbox[s]) = 3
        /\ outbox[s][1] = PlayStart(k)
        /\ outbox[s][2].type = "video" /\ outbox[s][2].ts = 0
        /\ outbox[s][2].payload = context.avc[k]
        /\ LiveFrame(outbox[s][3], k) /\ outbox[s][3].ts = nFrames
        /\ nFrames = 2

(* ---------------------------------- C11 -------------------------------- *)
\* session s has been told that a key it asked to play was not found
ToldNotFound(s) ==
    \E i \in 1..Len(outbox[s]) :
        outbox[s][i].code = "NetStream.Play.StreamNotFound"

\* C11: a play for a key that has no entry is answered with exactly one
\* message, an error-level onStatus NetStream.Play.StreamNotFound; nothing
\* is registered, nobody is marked player, and the session stays active in
\* its message loop; and when such a session later sends play for a key
\* that has an entry, it is sent NetStream.Play.Start and goes on to the
\* sequence headers and the registration.
C11_PlayMissingKeyNotFound ==
    [][\A s \in Sessions :
          /\ (Handles(s, "play") /\ ~StreamExists(context, last'.msg.key))
             => /\ Len(outbox'[s]) = Len(outbox[s]) + 1
                /\ SubSeq(outbox'[s], 1, Len(outbox[s])) = outbox[s]
                /\ Last(outbox'[s]).type = "onStatus"
                /\ Last(outbox'[s]).level = "error"
                /\ Last(outbox'[s]).code = "NetStream.Play.StreamNotFound"
                /\ context' = context
                /\ isPlayer' = isPlayer
                /\ active'[s]
                /\ pc'[s] = "read"
          /\ (Handles(s, "play") /\ ToldNotFound(s)
                                 /\ StreamExists(context, last'.msg.key))
             => /\ Last(outbox'[s]).level = "status"
                /\ Last(outbox'[s]).code = "NetStream.Play.Start"
                /\ pc'[s] = "playAvc"]_vars

\* a session was told that its key was not found, stayed active, and its
\* next play, sent once the key was published, made it a subscriber
C11_Witness ==
    \E s \in Sessions : \E k \in Keys :
        /\ Len(outbox[s]) = 2
        /\ outbox[s][1] = StreamNotFound(k)
        /\ outbox[s][2] = PlayStart(k)
        /\ s \in context.subs[k]
        /\ isPlayer[s] /\ active[s] /\ pc[s] = "read"

(* ---------------------------------- C12 -------------------------------- *)
\* C12: a publish that the installed session guard rejects is answered
\* with exactly one message, onStatus NetStream.Play.Stop (so
\* NetStream.Publish.Start is not sent); the session is marked inactive,
\* nobody is marked publisher and the context store is left as it was.
\* The session then handles no further message, is not marked publisher
\* later either, and leaves its message loop for its cleanup only.
C12_GuardRejectsPublish ==
    [][\A s \in Sessions :
          /\ ( /\ Handles(s, "publish")
               /\ guard.installed
               /\ ~Check(guard, last'.msg.key) )
             => /\ Len(outbox'[s]) = Len(outbox[s]) + 1
                /\ SubSeq(outbox'[s], 1, Len(outbox[s])) = outbox[s]
                /\ Last(outbox'[s]).type = "onStatus"
                /\ Last(outbox'[s]).code = "NetStream.Play.Stop"
                /\ \A t \in Sessions \ {s} : outbox'[t] = outbox[t]
                /\ ~active'[s]
                /\ isPublisher' = isPublisher
                /\ context' = context
          /\ (guard.installed /\ ~active[s])
             => /\ ~(last'.sess = s /\ counters' # counters)
                /\ isPublisher'[s] = isPublisher[s]
                /\ (~isPublisher[s] /\ streamKey[s] # NoKey)
                       => ~StreamExists(context', streamKey[s])
                /\ (pc[s] = "read" /\ pc'[s] # "read") => pc'[s] = "cleanup"]_vars

\* a session whose publish the guard rejected has ended: it was sent
\* Play.Stop only, it is not a publisher and its key has no entry
C12_Witness ==
    \E s \in Sessions :
        /\ guard.installed
        /\ pc[s] = "done"
        /\ ~active[s]
        /\ streamKey[s] \in guard.denied
        /\ outbox[s] = <<PlayStop>>
        /\ ~isPublisher[s]
        /\ ~StreamExists(context, streamKey[s])

(* ---------------------------------- C13 -------------------------------- *)
\* the step puts the payload of a sequence-header frame of kind cmd, read
\* from the live session that registered key k, into a cache of k that was
\* empty
FirstHeaderOfPublisher(k, cmd, old, new) ==
    /\ old = None
    /\ counters' # counters
    /\ last'.msg.cmd = cmd /\ last'.msg.pkt = 0
    /\ new = PayloadOf(last'.msg)
    /\ holder[k] = last'.sess
    /\ isPublisher[last'.sess] /\ streamKey[last'.sess] = k

\* C13: a cached AVC or AAC sequence header of key k changes to a header
\* only when the cache is empty and k's live publisher sends a
\* sequence-header frame (a later sequence-header frame does not replace
\* it); and a key without an entry has empty caches.
C13_HeaderCacheFromFirstHeader ==
    [][\A k \in Keys :
          /\ (context'.avc[k] # context.avc[k] /\ context'.avc[k] # None)
             => FirstHeaderOfPublisher(k, "video", context.avc[k], context'.avc[k])
          /\ (context'.aac[k] # context.aac[k] /\ context'.aac[k] # None)
             => FirstHeaderOfPublisher(k, "audio", context.aac[k], context'.aac[k])
          /\ ~StreamExists(context', k)
             => (context'.avc[k] = None /\ context'.aac[k] = None)]_vars

(* ---------------------------------- C14 -------------------------------- *)
\* C14: in what has been sent to a session, the live frames stand in the
\* order in which they were read from their publisher (a frame read
\* later carries the greater number), each as it was read; no frame stands
\* before a frame that was read earlier.
C14_FramesInPublisherOrder ==
    \A t \in Sessions : \A i, j \in 1..Len(outbox[t]) :
        ( /\ i < j
          /\ outbox[t][i].type \in {"audio", "video"} /\ outbox[t][i].ts # 0
          /\ outbox[t][j].type \in {"audio", "video"} /\ outbox[t][j].ts # 0 )
        => /\ outbox[t][i].ts < outbox[t][j].ts
           /\ outbox[t][i].payload[3] = outbox[t][i].ts
           /\ outbox[t][j].payload[3] = outbox[t][j].ts

\* a subscriber has been sent two frames of its publisher, the first
\* before the second
C14_Witness ==
    \E t \in Sessions : \E i, j \in 1..Len(outbox[t]) :
        /\ i < j
        /\ outbox[t][i].type \in {"audio", "video"} /\ outbox[t][i].ts = 1
        /\ outbox[t][j].type \in {"audio", "video"} /\ outbox[t][j].ts = 2
        /\ t \in context.subs[outbox[t][j].key]

(* ---------------------------------- C15 -------------------------------- *)
\* C15: at no moment are two tasks between the Write and the Flush of the
\* same connection's socket writer.
C15_OneWriterPerConnection ==
    \A c \in Sessions : Cardinality(socketw.writing[c]) <= 1

(* ---------------------------------- C16 -------------------------------- *)
\* C16: a publisher that has begun to fan a frame out gets back to
\* reading its own messages, whatever the peers of its subscribers do.
C16_PublisherNotBlocked ==
    \A p \in Sessions : (pc[p] = "fanout") ~> (pc[p] = "read")

\* C17: a message written through the chunk handler with out_chunk_size N
\* and read back with in_chunk_size N is read without error and with the
\* same chunk stream id, message stream id, timestamp, type id and payload
C17_ChunkRoundTrip ==
    (peer.n > 0 /\ peer.reads = peer.n)
        => (peer.err = "" /\ peer.received = peer.sent)

\* C18: once the chunks of the peer's messages are read, the elapsed time
\* stored for each chunk stream id is the last absolute timestamp of a
\* type-0 chunk on that id plus the deltas of the messages that followed
\* it on that id, each counted once
C18_ElapsedTimeSumsDeltas ==
    (peer.err = "" /\ peer.reads = peer.n)
        => \A csid \in DOMAIN chunkHandler.prevChunkHeader :
              /\ csid \in DOMAIN peer.clock
              /\ chunkHandler.prevChunkHeader[csid].ElapsedTime = peer.clock[csid]

\* C19: S0+S1+S2 are sent once the 1 + 1536 bytes of C0 and C1 are read,
\* the 1536 bytes of C2 are read after that, and the first chunk is read
\* after C2; S0 is 0x03, the first 8 bytes of S1 are zero and S2 is the C1
\* the client sent
C19_HandshakeInOrder ==
    /\ \A i \in DOMAIN rtmpSession.log :
          LET e == rtmpSession.log[i]
          IN /\ e.step = "sendS0S1S2" => e.from = 1 + HandshakeSize
             /\ e.step = "readC2" /\ e.k > 0 =>
                    /\ e.out = 1 + 2 * HandshakeSize
                    /\ e.from = 1 + HandshakeSize
                    /\ e.k = HandshakeSize
             /\ e.step = "nextMessage" /\ e.k > 0 =>
                    /\ e.from = 1 + 2 * HandshakeSize
                    /\ e.out = 1 + 2 * HandshakeSize
    /\ rtmpSession.out # <<>> =>
          /\ Len(rtmpSession.out) = 1 + 2 * HandshakeSize
          /\ rtmpSession.out[1] = 3
          /\ SubSeq(rtmpSession.out, 2, 9) = Zeros(8)
          /\ SubSeq(rtmpSession.out, 2 + HandshakeSize, 1 + 2 * HandshakeSize)
                = rtmpSession.c1sent

\* C20: when the client's C0 is not 0x03, S0+S1+S2 are not sent, Run does
\* not enter its loop, and when Run has returned it has returned an error
C20_BadVersionFails ==
    rtmpSession.c0 # 3 /\ rtmpSession.pc # "idle" =>
        /\ rtmpSession.out = <<>>
        /\ rtmpSession.pc \notin {"loop", "chunks"}
        /\ rtmpSession.pc = "closed" => rtmpSession.err # ""


(* ------------------------------ client mode ---------------------------- *)
\* the requests a step of the client has sent
RequestsSent == SubSeq(playback'.out, Len(playback.out) + 1, Len(playback'.out))

\* the step dispatched a message of this kind to its callback
Dispatched(kind) ==
    /\ playback'.n = playback.n + 1
    /\ playback'.last.kind = kind

\* the step left the handshake behind and entered the read loop
Connected ==
    /\ playback.pc = "start"
    /\ playback'.pc = "read"

C22_InterleavedReassembly ==
    peer.mixed # <<>> =>
        /\ peer.err = ""
        /\ \E k \in 0..2 :
             peer.delivered = Take(<<peer.mixed[2], peer.mixed[1]>>, k)
        /\ chunkHandler.socketr = <<>> =>
             peer.delivered = <<peer.mixed[2], peer.mixed[1]>>
(* --------------------------- inherited headers ------------------------- *)
\* the last read returned the header of a message the peer started with a
\* chunk of one of these types
HeaderOfType(fmts) ==
    /\ peer.mixed = <<>>
    /\ peer.err = ""
    /\ peer.received # NoMessage
    /\ peer.header.FMT \in fmts

\* the header read has the message stream id, and the length and type id,
\* of the message the peer wrote: what a chunk of type 1, and of type 2 or
\* 3, leaves out and the reader takes from the previous header of the
\* chunk stream
InheritsStream ==
    peer.header.MessageStreamID = peer.sent.msid
InheritsLengthAndType ==
    /\ peer.header.MessageLength = Len(peer.sent.payload)
    /\ peer.header.MessageTypeID = peer.sent.type

\* C23: a type-1 chunk takes its message stream id from the previous header
\* on the same chunk stream id; a type-2 chunk takes message length, type
\* id and message stream id from it; a type-3 chunk takes all of these and
\* its timestamp delta is the delta of the preceding chunk on that chunk
\* stream id (its absolute timestamp when that chunk was of type 0).
C23_HeaderInheritance ==
    /\ HeaderOfType({ChunkType1, ChunkType2, ChunkType3}) => InheritsStream
    /\ HeaderOfType({ChunkType2, ChunkType3}) => InheritsLengthAndType
    /\ HeaderOfType({ChunkType3}) =>
         peer.header.Timestamp = peer.delta[peer.header.ChunkStreamID]
(* ------------------------------ basic header --------------------------- *)
\* a basic header was read from peer.bytes without error
BasicHeaderRead ==
    /\ peer.bytes # <<>>
    /\ peer.reads = 1
    /\ peer.err = ""

\* C24: fmt is the top 2 bits of the first byte; low 6 bits of 2..63 are
\* the chunk stream id; when they are 0 one more byte b is read and the id
\* is b + 64; when they are 1 two more bytes are read as a big-endian
\* 16-bit number n and the id is n + 64; the id is always in 2..65599.
C24_BasicHeaderDecodes ==
    BasicHeaderRead =>
        LET b == peer.bytes
            h == peer.header
            low == b[1] - 64 * h.FMT
            used == Len(b) - Len(chunkHandler.socketr)
        IN /\ h.FMT \in 0..3
           /\ low \in 0..63
           /\ low \in 2..63 => h.ChunkStreamID = low /\ used = 1
           /\ low = 0 => h.ChunkStreamID = b[2] + 64 /\ used = 2
           /\ low = 1 => h.ChunkStreamID = 256 * b[2] + b[3] + 64 /\ used = 3
           /\ chunkHandler.socketr = Drop(b, used)
           /\ h.ChunkStreamID \in 2..65599

\* the three-byte form with both id bytes 255 was read as chunk stream
\* 65599
C24_LargestIdRead ==
    /\ BasicHeaderRead
    /\ peer.bytes[1] % 64 = 1
    /\ peer.header.ChunkStreamID = 65599
(* ------------------------------ chunk count ---------------------------- *)
\* max(1, ceil(length / chunkSize))
ChunksOf(length, chunkSize) ==
    IF length = 0 THEN 1 ELSE (length + chunkSize - 1) \div chunkSize

\* the message written last is on the connection, unread; it has been read
Unread ==
    /\ peer.sent # NoMessage
    /\ peer.reads = peer.n - 1
ReadBack ==
    /\ peer.sent # NoMessage
    /\ peer.reads = peer.n

\* the bytes of chunk k of the wire w, after a first header of hl bytes,
\* when every later chunk has a one-byte header: its header byte (k > 1)
\* is at ChunkStart(hl, k, n), its payload follows
ChunkStart(hl, k, n) == hl + (k - 1) * (n + 1)
ChunkPayload(w, hl, k, n, length) ==
    SubSeq(w, ChunkStart(hl, k, n) + 1,
           ChunkStart(hl, k, n) + Min(n, length - (k - 1) * n))

\* C25: a message of length L is carried in exactly max(1, ceil(L / N))
\* chunks when written with chunk size N: the type-0 header, then the
\* slices of N bytes (the last one shorter) with the one-byte type-3 header
\* of the chunk stream before every slice after the first; so L = N is one
\* chunk without a continuation header and L = N + 1 two chunks, the second
\* carrying 1 byte.  Read with the same chunk size, the chunks are consumed
\* to the last byte and give the payload back.
C25_ChunkCount ==
    LET m == peer.sent
        length == Len(m.payload)
        n == chunkHandler.outChunkSize
        c == ChunksOf(length, n)
        w == chunkHandler.socketr
        hl == Len(Type0Header(m))
    IN /\ Unread =>
            /\ Len(w) = hl + length + (c - 1)
            /\ Take(w, hl) = Type0Header(m)
            /\ \A k \in 1..c :
                 ChunkPayload(w, hl, k, n, length)
                    = SubSeq(m.payload, (k - 1) * n + 1, Min(k * n, length))
            /\ \A k \in 2..c :
                 w[ChunkStart(hl, k, n)] = ChunkType3 * 64 + m.csid
       /\ ReadBack =>
            /\ peer.err = ""
            /\ peer.received.payload = m.payload
            /\ w = <<>>

\* a message one byte longer than the chunk size went out in two chunks,
\* and one of exactly the chunk size in one; the first has been read back
C25_BoundaryRead ==
    /\ ReadBack
    /\ peer.n = 2
    /\ Len(peer.sent.payload) = chunkHandler.inChunkSize + 1
    /\ peer.received = peer.sent
    /\ chunkHandler.prevChunkHeader[peer.sent.csid].FMT = ChunkType3
(* --------------------------- protocol control -------------------------- *)
\* the step handled a control message, or read a chunk, of this kind
HandledKind(kind) ==
    /\ peer'.n = peer.n + 1
    /\ peer'.control.kind = kind

\* the messages the step wrote
ControlWritten ==
    SubSeq(chunkHandler'.socketw, Len(chunkHandler.socketw) + 1,
           Len(chunkHandler'.socketw))

\* C26: every byte read from the connection is added to bytes_received,
\* and each time the count reaches window_ack_size exactly one
\* Acknowledgement carrying the running count is emitted and the count is
\* reset to 0: a chunk of b bytes read when c bytes were unacknowledged
\* leaves bytes_received = c + b and writes nothing if c + b is below the
\* window, and otherwise writes one Acknowledgement of c + b and leaves 0.
C26_BytesReceivedCounted ==
    [][HandledKind("Chunk") =>
         LET count == peer.unacked + peer'.control.a + peer'.control.b
         IN IF count >= chunkHandler.windowAckSize
            THEN /\ ControlWritten = <<generateAckMessage(count)>>
                 /\ chunkHandler'.bytesReceived = 0
            ELSE /\ ControlWritten = <<>>
                 /\ chunkHandler'.bytesReceived = count]_vars
\* C27: on receiving Window-Ack-Size with value s, window_ack_size becomes
\* s; if no Acknowledgement was ever sent exactly one is emitted, otherwise
\* none; ack_sent is true afterwards, and it never returns to false.
C27_WindowAckSize ==
    [][/\ HandledKind("WindowAckSize") =>
            /\ chunkHandler'.windowAckSize = peer'.control.a
            /\ ControlWritten =
                  IF chunkHandler.ackSent THEN <<>>
                  ELSE <<generateAckMessage(chunkHandler.bytesReceived)>>
            /\ chunkHandler'.ackSent
       /\ chunkHandler.ackSent => chunkHandler'.ackSent]_vars

\* a Window-Ack-Size was handled after the Acknowledgement of the 2 bytes
\* of a chunk had been written: it wrote none
C27_NoSecondAcknowledgement ==
    /\ peer.n = 2
    /\ peer.control = Control("WindowAckSize", 6, 0)
    /\ chunkHandler.windowAckSize = 6
    /\ chunkHandler.ackSent
    /\ chunkHandler.socketw = <<generateAckMessage(2)>>

\* C28: after a Set-Chunk-Size is received in_chunk_size is the 31-bit
\* value of the message, so never 2^31 or more whatever the top bit, and
\* in_chunk_size is always at least 1.
C28_InChunkSize31Bits ==
    /\ peer.control.kind = "SetChunkSize" =>
         chunkHandler.inChunkSize = peer.control.b
    /\ chunkHandler.inChunkSize <= MaxInt31
    /\ chunkHandler.inChunkSize >= 1

\* C29: in_chunk_size and out_chunk_size are both 128 when the chunk
\* handler is created; in_chunk_size changes only when a Set-Chunk-Size is
\* received and out_chunk_size only when one is sent, each then equal to
\* the announced value; an Acknowledgement, a Window-Ack-Size or a
\* Set-Peer-Bandwidth received, and a chunk read, leave both unchanged.
C29_ChunkSizesFrame ==
    /\ chunkHandler.inChunkSize = 128
    /\ chunkHandler.outChunkSize = 128
    /\ [][/\ chunkHandler'.inChunkSize # chunkHandler.inChunkSize
               => HandledKind("SetChunkSize")
          /\ HandledKind("SetChunkSize")
               => chunkHandler'.inChunkSize = peer'.control.b
          /\ chunkHandler'.outChunkSize # chunkHandler.outChunkSize
               => HandledKind("sendSetChunkSize")
          /\ HandledKind("sendSetChunkSize")
               => chunkHandler'.outChunkSize = peer'.control.a]_vars

\* a Set-Chunk-Size of 1 was received and one of 4096 sent, and the
\* Window-Ack-Size handled after them left both sizes as they were
C29_SizesKept ==
    /\ peer.n = 3
    /\ peer.control.kind = "WindowAckSize"
    /\ chunkHandler.inChunkSize = 1
    /\ chunkHandler.outChunkSize = 4096

\* C30: on receiving Set-Peer-Bandwidth with size s and limit type t,
\* out_bandwidth becomes s and limit_type becomes t, and nothing else
\* changes: chunk sizes, window_ack_size, bytes_received and ack_sent keep
\* their values and no message is emitted.
C30_PeerBandwidth ==
    [][HandledKind("SetPeerBandwidth") =>
         chunkHandler' = [chunkHandler EXCEPT !.outBandwidth = peer'.control.a,
                                              !.limit = peer'.control.b]]_vars

(* ---------------------------- message ceiling -------------------------- *)
\* C31: a chunk header announcing a message length above the configured
\* ceiling is rejected with an error, before a buffer of that length is
\* allocated or any payload byte is read: once the message has been read,
\* the read has failed, nothing was delivered and the payload bytes are
\* still on the connection.
C31_CeilingRejects ==
    (ReadBack /\ Len(peer.sent.payload) > MessageCeiling) =>
        /\ peer.err # ""
        /\ peer.received = NoMessage
        /\ Len(chunkHandler.socketr) >= Len(peer.sent.payload)

(* ----------------------------- session guard --------------------------- *)
\* the step is session s handling a publish command
Publishes(s) ==
    /\ nCmds' = nCmds + 1
    /\ last'.sess = s
    /\ last'.msg.cmd = "publish"

\* the step calls guard.End(s)
GuardEnds(s) ==
    /\ s \in guardEnded'
    /\ s \notin guardEnded

\* C32: with a session guard installed, Check is called on every publish
\* before the session is marked publisher, before NetStream.Publish.Start
\* is sent and before the key is registered: a publish the guard rejects
\* marks nothing, registers nothing and sends no Publish.Start.  End is
\* called at most once per session, only during teardown, only for a
\* session marked publisher, and after BroadcastEndOfStream and with
\* DestroyPublisher done.
C32_GuardCalls ==
    [][\A s \in Sessions :
         /\ (guard.installed /\ Publishes(s) /\ ~Check(guard, last'.msg.key)) =>
                /\ isPublisher'[s] = isPublisher[s]
                /\ context' = context
                /\ outbox' = [outbox EXCEPT ![s] = Append(@, PlayStop)]
         /\ (guard.installed /\ Publishes(s) /\ Check(guard, last'.msg.key)) =>
                /\ isPublisher'[s]
                /\ outbox' = [outbox EXCEPT
                                ![s] = Append(@, PublishStart(last'.msg.key))]
         /\ GuardEnds(s) =>
                /\ guard.installed
                /\ pc[s] = "destroy"
                /\ pc'[s] = "done"
                /\ isPublisher[s]
                /\ context' = DestroyPublisher(context, streamKey[s])
         /\ s \in guardEnded => pc[s] = "done" /\ pc'[s] = "done"]_vars

\* a session published a key the guard accepts and then one it rejects,
\* and the guard was told of its end
C32_GuardToldOfEnd ==
    /\ guard.installed
    /\ 1 \in guardEnded
    /\ isPublisher[1]
    /\ ~Check(guard, streamKey[1])
    /\ pc[1] = "done"
(* ---------------------------------- C33 -------------------------------- *)
\* a step of the deferred cleanup of session s
TearsDown(s) == pc[s] \in {"cleanup", "eos", "destroy"} /\ pc'[s] # pc[s]

\* session s registered the entry of key x and afterwards played key y,
\* whose entry another session registered
PublishedThenPlayed(s, x, y) ==
    /\ isPublisher[s] /\ isPlayer[s]
    /\ holder[x] = s
    /\ streamKey[s] = y
    /\ holder[y] \notin {0, s}

\* C33: the teardown of a session that published key x and afterwards
\* played key y of another publisher removes only its own registrations:
\* no step of it removes y's entry, changes y's cached sequence headers or
\* y's other subscribers, or sends anything (NetStream.Play.Stop) to them,
\* and when it is over x has no entry, so that x can be published again.
C33_TeardownOwnRegistrations ==
    [][\A s \in Sessions : \A x, y \in Keys :
          (TearsDown(s) /\ PublishedThenPlayed(s, x, y)) =>
              /\ StreamExists(context', y)
              /\ context'.avc[y] = context.avc[y]
              /\ context'.aac[y] = context.aac[y]
              /\ context'.subs[y] \ {s} = context.subs[y] \ {s}
              /\ \A t \in context.subs[y] \ {s} : outbox'[t] = outbox[t]
              /\ pc'[s] = "done" => ~StreamExists(context', x)]_vars

(* ---------------------------------- C34 -------------------------------- *)
\* C34: an audio, video or metadata message handled for a session that did
\* not register the entry of key k (it never published, its publish of k
\* found k held, or it plays k) is sent to no subscriber of k and leaves
\* k's cached sequence headers as they are.
C34_OnlyPublisherFeedsKey ==
    [][\A s \in Sessions : \A k \in Keys :
          (/\ Handles(s, "audio") \/ Handles(s, "video") \/ Handles(s, "metadata")
           /\ holder[k] # s) =>
              /\ context'.avc[k] = context.avc[k]
              /\ context'.aac[k] = context.aac[k]
              /\ \A t \in context.subs[k] : outbox'[t] = outbox[t]]_vars

(* ---------------------------------- C35 -------------------------------- *)
\* C35: when onPlay returns for a player that it sent
\* NetStream.Play.Start for key k, the player is in k's subscriber set or
\* that last step sent it a status of level "error", also when k's entry
\* was removed after the StreamExists(k) of onPlay.
C35_PlayStartedIsSubscribed ==
    [][\A s \in Sessions :
          Moves(s, "playReg", "read") =>
              \/ s \in context'.subs[streamKey[s]]
              \/ /\ Len(outbox'[s]) > Len(outbox[s])
                 /\ Last(outbox'[s]).level = "error"]_vars

(* ---------------------------------- C36 -------------------------------- *)
\* the message read last began with a chunk of type 1, 2 or 3 on a chunk
\* stream for which the reader had no header stored
StartedUnopened ==
    /\ ReadBack
    /\ peer.sent.csid \notin DOMAIN peer.clock

\* C36: reading a chunk of type 1, 2 or 3 on a chunk stream that has no
\* stored header returns an error to the session that reads it: the read
\* fails, and not by the dereference of a nil header, which is a runtime
\* panic that ends the process and every session with it.
C36_UnopenedStreamRejected ==
    StartedUnopened => peer.err \notin {"", "nil"}

(* ---------------------------------- C37 -------------------------------- *)
\* C37: while no Window-Ack-Size has been received (windowAckSize is still
\* the 0 of NewChunkHandler), counting the bytes of a chunk writes no
\* Acknowledgement.
C37_NoAckBeforeWindow ==
    [][(HandledKind("Chunk") /\ chunkHandler.windowAckSize = 0) =>
           ControlWritten = <<>>]_vars

(* ---------------------------------- C38 -------------------------------- *)
\* the step is a round of the loop of assembleMessage that read a chunk
RoundRead ==
    /\ peer.assembling.pc = "loop"
    /\ peer'.assembling.pc = "loop"
    /\ peer'.assembling.headers = peer.assembling.headers + 1

\* the step is the return of the payload of a message
PayloadReturned ==
    /\ peer'.reads = peer.reads + 1
    /\ peer'.err = ""

\* C38: whatever in_chunk_size the peer has set, 0 included, every round
\* of the loop of assembleMessage that reads a chunk increases the number of
\* bytes read, and the payload that is returned has the message length of
\* the header and was read with at most ceil(length / in_chunk_size) chunk
\* headers (one for a message within a chunk).
C38_ReadTerminates ==
    [][/\ RoundRead =>
            Len(peer'.assembling.payload) > Len(peer.assembling.payload)
       /\ PayloadReturned =>
            /\ Len(peer'.received.payload) = peer'.header.MessageLength
            /\ \/ peer'.assembling.headers = 1
               \/ (peer'.assembling.headers - 1) * chunkHandler.inChunkSize
                      < peer'.header.MessageLength]_vars

(* ---------------------------------- C39 -------------------------------- *)
\* the requests of this type that the client has sent
Requested(type) == {i \in 1..Len(playback.out) : playback.out[i].type = type}

\* C39: a client sends its requests in the order connect, createStream,
\* play: a step sends play only after createStream has been sent, and sends
\* createStream only after connect has been sent and on receiving a _result
\* of code NetConnection.Connect.Success, in whatever order the _result and
\* the StreamBegin of the server's connect sequence arrive.
C39_RequestOrder ==
    [][\A i \in 1..Len(RequestsSent) :
          /\ RequestsSent[i].type = "play" => Requested("createStream") # {}
          /\ RequestsSent[i].type = "createStream" =>
                /\ Requested("connect") # {}
                /\ Dispatched("_result")
                /\ playback'.last.info.code = "NetConnection.Connect.Success"]_vars

====
